---- MODULE Spec2Model ----
(***************************************************************************)
(* The trading engine of traderbot: the account (position state machine,   *)
(* balance cache, buy/sell gates) on top of the Jupiter swap pipeline       *)
(* (quote, build, sign, simulate, send, confirm, retried three times).      *)
(*                                                                         *)
(* Two pipelines live in the repository and both are modelled:             *)
(*   api = "sync"  : JupiterPrivateAPI / DryJupiterPrivateAPI               *)
(*   api = "async" : AsyncJupiterService over AsyncRPCClient(is_dryrun)     *)
(* Time is an integer clock in ticks; one second is TicksPerSecond ticks    *)
(* and every datetime.now() advances it by one tick (two reads never       *)
(* return the same instant).  Network calls answer at once; only sleeps    *)
(* let seconds pass.                                                       *)
(***************************************************************************)
EXTENDS Integers, Sequences, FiniteSets, TLC

VARIABLES
    api,                    \* which pipeline implementation runs
    is_dryrun,              \* dry-run mode
    now,                    \* the clock, in ticks
    current_position,       \* AsyncAccount.current_position
    total_pnl,              \* AsyncAccount.total_pnl
    balances,               \* AsyncAccount.balances (the cached snapshot)
    balances_last_update,   \* AsyncAccount.balances_last_update
    position_last_update,   \* AsyncAccount.position_last_update
    pc,                     \* where the place_order in flight stands
    call,                   \* the place_order in flight (or the last one)
    attempt,                \* i of _do_swap_with_retry
    conf_start,             \* start of _wait_for_confirmation
    polls,                  \* status queries made by the confirmation in progress
    next_sig,               \* source of fresh signatures
    cur_sig,                \* signature returned by the last send
    result,                 \* how the last place_order ended
    steps,                  \* steps executed by the attempt in progress
    observed,               \* what the backend answered in the attempt in progress
    slippages,              \* slippage bps requested by each attempt of this call
    sent,                   \* signatures submitted with send_raw_transaction in this call
    unsettled,              \* of those, the ones whose confirmation ended without a verdict
    confirmed_sigs,         \* signatures the chain reported Confirmed or Finalized
    fabricated,             \* signatures fabricated by dry-run sends, oldest first
    raw_sends,              \* calls of send_raw_transaction
    status_queries,         \* calls of get_signature_statuses
    confirm_end,            \* how the last confirmation ended
    last_status,            \* the status the last confirmation ended on
    pre,                    \* account fields when the call in flight passed its gate
    buys_ok,                \* successful buys
    sells_ok,               \* successful sells
    calls,                  \* place_order calls made
    slow_confirms,          \* confirmations that stayed pending past MaxLandPolls
    ops,                    \* account operations made (account-level runs)
    closed_positions,       \* the positions closed so far, oldest first
    unread_order,           \* "ok" while no get_balance has completed since a
                            \* successful order; else how the last place_order
                            \* ended if no get_balance followed it, else "none"
    last_op,                \* what the last account operation did
    lpc,                    \* where the trading loop stands in its iteration
    loop_end,               \* why the loop ended, "running" while it has not
    ticks,                  \* iterations started
    events,                 \* what the iteration in progress has done so far
    base,                   \* ops and calls when the iteration started
    ticker,                 \* the price the iteration fetched
    signal,                 \* what the strategy answered in this iteration
    order_done_at,          \* when the last iteration's order was placed, else -1
    hasty,                  \* an iteration started less than the settle wait
                            \* after a successful order
    surfaced,               \* the exception the swap in flight raised to its caller
    warnings,               \* attempts whose exception was logged as a warning
    websocket,              \* AsyncJupiterClient.websocket: a connection, or None
    subscriptions,          \* the mint each connection opened so far subscribed to
    stream,                 \* the price stream: reachable or not, live connections
    gp,                     \* the get_price call in flight (or the last one)
    delivered,              \* what the last get_price returned
    price_error,            \* the exception the last get_price raised to its caller
    target_profit_reached,  \* TargetValueStrategy.target_profit_reached
    highest_price_after_target, \* TargetValueStrategy.highest_price_after_target
    last_price,             \* TargetValueStrategy.last_price
    tv_in,                  \* arguments of the last TargetValue on_market_refresh
    tv_out,                 \* what that call returned, and at which statement
    tv_seen,                \* since the position of that call opened: whether the
                            \* profit target was met, and the top price since then
    sell_mode,              \* StrategyComposer.sell_mode
    buy_mode,               \* StrategyComposer.buy_mode
    position_peak,          \* the highest buy price of the composer's ticks that
                            \* came with the position of its last call, 0
                            \* without one
    trailing_highest,       \* highest_price_after_target of the composer's
                            \* TrailingStopLossStrategy child
    signals,                \* the list given to the last _check_signals
    check,                  \* its mode and side, and what it returned
    children_called,        \* the children the composer's last on_market_refresh
                            \* called
    composed,               \* arguments and outcome of that on_market_refresh
    ema_period,             \* DynamicTargetStrategy.ema_period
    atr_period,             \* DynamicTargetStrategy.atr_period
    ticker_history,         \* DynamicTargetStrategy.ticker_history
    current_ema,            \* DynamicTargetStrategy.current_ema, a fraction or None
    dt_in,                  \* arguments of the last DynamicTarget on_market_refresh
    dt_out,                 \* what that call returned, and the EMA and ATR it used
    position_history,       \* the backtest account's positions, oldest first
    last_order_id,          \* BacktestingBot.run: last_order_id, 0 for None
    bt,                     \* where BacktestingBot.run stands: the candle index and the step
    buy_chance,             \* RandomStrategy.buy_chance
    sell_chance,            \* RandomStrategy.sell_chance
    rn_in,                  \* arguments of the last Random on_market_refresh, and its draw
    rn_out,                 \* what that call returned
    mint_decimals,          \* Mint.decimals of the mint a conversion is asked of
    ui_amount,              \* the UI amount given to ui_to_raw, a decimal [coef, scale]
    converted,              \* what ui_to_raw and raw_to_ui returned for it
    stop_loss_tenths,       \* TrailingStopLossStrategy.stop_loss_percent, in tenths
    stop_highest,           \* TrailingStopLossStrategy.highest_price_after_target
    ts_in,                  \* arguments of the last TrailingStopLoss on_market_refresh
    ts_out,                 \* what that call returned
    ts_peak,                \* the highest buy price of the ticks that came with the
                            \* position of that call, 0 without one
    short_window,           \* WeightedMovingAverageStrategy.short_window
    long_window,            \* WeightedMovingAverageStrategy.long_window
    buy_when_short_below,   \* WeightedMovingAverageStrategy.buy_when_short_below
    sample_period,          \* WeightedMovingAverageStrategy.period, in seconds
    shift_past,             \* WeightedMovingAverageStrategy.shift_past
    price_history,          \* WeightedMovingAverageStrategy.price_history
    last_price_time,        \* WeightedMovingAverageStrategy.last_price_time
    wma_in,                 \* arguments of the last WeightedMovingAverage
                            \* call and the window it found
    wma_out,                \* what that call returned
    wma_seen,               \* how many prices each average of that call
                            \* was taken over
    tp_in,                  \* arguments of the last TargetPercent on_market_refresh
    tp_out,                 \* what that call returned
    strategy                \* the strategy class the run was started with

vars == <<api, is_dryrun, now, current_position, total_pnl, balances,
          balances_last_update, position_last_update, pc, call, attempt,
          conf_start, polls, next_sig, cur_sig, result, steps, observed,
          slippages, sent, unsettled, confirmed_sigs, fabricated, raw_sends,
          status_queries, confirm_end, last_status, pre, buys_ok, sells_ok,
          calls, slow_confirms, ops, closed_positions, unread_order,
          last_op, lpc, loop_end, ticks, events, base, ticker, signal,
          order_done_at, hasty, surfaced, warnings, websocket,
          subscriptions, stream, gp, delivered, price_error,
          target_profit_reached, highest_price_after_target, last_price,
          tv_in, tv_out, tv_seen, sell_mode, buy_mode, position_peak,
          trailing_highest,
          signals, check, children_called, composed, ema_period,
          atr_period, ticker_history, current_ema, dt_in, dt_out,
          position_history, last_order_id, bt,
          buy_chance, sell_chance, rn_in, rn_out,
          mint_decimals, ui_amount, converted,
          stop_loss_tenths, stop_highest, ts_in, ts_out, ts_peak,
          short_window, long_window, buy_when_short_below,
          sample_period, shift_past, price_history, last_price_time, wma_in,
          wma_out, wma_seen,
          tp_in, tp_out,
          strategy>>

(* ------------------------------ bounds -------------------------------- *)

MaxOrders == 2
MaxPrice == 2
MaxQuantity == 1
MaxLandPolls == 2
MaxSlowConfirms == 1
TicksPerSecond == 1000
MaxAccountOps == 5
MaxAccountQuantity == 2
MaxTicks == 2
MaxPriceCalls == 3
MaxOutages == 2
MaxGarbled == 1
MaxRetries == 3
MaxStrategyPrice == 4
MaxSignals == 3
MaxDynamicPrice == 3
MaxDynamicTicks == 5
MaxCandles == 4
MaxCoefficient == 25
MaxWmaPrice == 3
MaxWmaTime == 5

(* ------------------------- program constants -------------------------- *)

MaxAttempts == 3
ConfirmTimeout == 30
PollInterval == 1
CacheMinutes == 3
MinBuyBalance == 1000
MinSellBalance == 1
DatetimeMin == -1000000
ReconnectWait == 2
ProfitSlackTenths == 11

Seconds(n) == n * TicksPerSecond

(* ------------------------------ values -------------------------------- *)

NoPosition == [none |-> TRUE]
NoOrder == [none |-> TRUE]
NoBalances == [none |-> TRUE]
NoStatus == [none |-> TRUE]
FetchError == [error |-> TRUE]
NoErr == "None"
NoSig == 0

Prices == 1..MaxPrice
Quantities == 1..MaxQuantity
Sides == {"buy", "sell"}

\* Balance snapshots the backend can report, in units of 0.00001 UI.
InputBalances == {MinBuyBalance - 1, MinBuyBalance}
OutputBalances == {MinSellBalance - 1, MinSellBalance}

\* What get_signature_statuses can answer for one signature.
Statuses ==
    {NoStatus} \cup
    [confirmation_status : {"processed", "confirmed", "finalized"},
     err : {NoErr, "InstructionError"}]

PendingStatuses ==
    {NoStatus, [confirmation_status |-> "processed", err |-> NoErr]}

NoObservation == [route |-> "none", sim |-> "none"]
NoSignal == [none |-> TRUE]
NoError == [none |-> TRUE]
NoSocket == 0
NoLastPrice == -1
NoEma == [none |-> TRUE]
NoOrderId == 0
NotConverted == [done |-> FALSE, raw |-> 0, ui |-> [coef |-> 0, scale |-> 0]]
NoBalanceGiven == -1
NoStrategy == "none"
NotRefreshed ==
    [called |-> FALSE, price |-> 1, position |-> [none |-> TRUE], at |-> 0,
     history |-> <<>>, last_price_time |-> DatetimeMin]
NotCompared == [compared |-> FALSE, short_over |-> 0, long_over |-> 0]
NoCheck == [mode |-> "all", side |-> "buy", done |-> FALSE, value |-> FALSE]
NoQuantity == -1
NoAttribute == [absent |-> TRUE]
NoSpread == [none |-> TRUE]
NoDelivery == [none |-> TRUE]
NoPriceCall ==
    [pc |-> "idle", requested |-> "none", mint |-> "none", failures |-> 0,
     cause |-> "none", failed_at |-> 0, connected_at |-> 0, calls |-> 0]

\* The record kept of an account operation: whether get_balance was called
\* (read), whether it called the backend (fetched) and whether that raised,
\* the state of the cache it found, the balance the gate compared, whether
\* provider.swap was called, and how the operation ended.
NoOperation ==
    [op |-> "none", side |-> "none", read |-> FALSE, fetched |-> FALSE,
     raised |-> FALSE, after |-> "none", prev_read |-> FALSE,
     snapshot |-> FALSE, fresh |-> FALSE, position_unchanged |-> FALSE,
     balance |-> -1, swapped |-> FALSE, outcome |-> "none"]

(* ----------------------------- the account ---------------------------- *)

\* Variant of HasLongPosition: the gate forgets the open position.
HasLongPosition_Never(position) == FALSE

\* can_buy's first test: a Long position is already open.
HasLongPosition(position) ==
    /\ position # NoPosition
    /\ position.type = "long"

\* can_sell's first test: there is no Long position to close.
LacksLongPosition(position) ==
    \/ position = NoPosition
    \/ position.type # "long"

\* Variant of CacheInvalid: a position change does not invalidate the cache.
CacheInvalid_IgnoresPosition(bal, blu, plu, t) ==
    \/ bal = NoBalances
    \/ blu < t - Seconds(CacheMinutes * 60)

\* Variant of CacheInvalid: the age is tested with the comparison reversed.
CacheInvalid_YoungIsStale(bal, blu, plu, t) ==
    \/ bal = NoBalances
    \/ blu > t - Seconds(CacheMinutes * 60)
    \/ plu > blu

\* get_balance's test for a cache that must be refreshed.
CacheInvalid(bal, blu, plu, t) ==
    \/ bal = NoBalances
    \/ blu < t - Seconds(CacheMinutes * 60)
    \/ plu > blu

\* Variant of BelowMinimum: a sell is held to no minimum.
BelowMinimum_BuyOnly(side, balance) ==
    side = "buy" /\ balance < MinBuyBalance

BelowMinimum(side, balance) ==
    IF side = "buy" THEN balance < MinBuyBalance ELSE balance < MinSellBalance

\* The mint whose balance the gate of `side` reads.
GateBalance(side, bal) ==
    IF side = "buy" THEN bal.input ELSE bal.output

\* Variant of PositionRejects: the gate does not look at the position.
PositionRejects_Never(side, position) == FALSE

PositionRejects(side, position) ==
    IF side = "buy" THEN HasLongPosition(position) ELSE LacksLongPosition(position)

\* Variant of realized_pnl: the quantity is taken from the exit order.
realized_pnl_ExitQuantity(position) ==
    IF position.exit_order # NoOrder
    THEN (position.exit_order.price - position.entry_order.price)
            * position.exit_order.quantity
    ELSE 0

\* Position.realized_pnl
realized_pnl(position) ==
    IF position.exit_order # NoOrder
    THEN (position.exit_order.price - position.entry_order.price)
            * position.entry_order.quantity
    ELSE 0

MakeOrder(order_id, side, t) ==
    [order_id |-> order_id, quantity |-> call.quantity, price |-> call.price,
     side |-> side, timestamp |-> t]

\* buy(), after provider.swap returned order_id at time t.
BuyFilled(order_id, t) ==
    /\ current_position' =
          [type |-> "long", entry_order |-> MakeOrder(order_id, "buy", t),
           exit_order |-> NoOrder]
    /\ position_last_update' = t + 1
    /\ now' = t + 2
    /\ buys_ok' = buys_ok + 1
    /\ UNCHANGED <<total_pnl, sells_ok>>

\* Variant of SellFilled: the closed position is left in current_position.
SellFilled_KeepsPosition(order_id, t) ==
    LET closed == [current_position EXCEPT
                     !.exit_order = MakeOrder(order_id, "sell", t)]
    IN  /\ total_pnl' = total_pnl + realized_pnl(closed)
        /\ current_position' = closed
        /\ position_last_update' = t + 1
        /\ now' = t + 2
        /\ sells_ok' = sells_ok + 1
        /\ UNCHANGED buys_ok

\* sell(), after provider.swap returned order_id at time t.
SellFilled(order_id, t) ==
    LET closed == [current_position EXCEPT
                     !.exit_order = MakeOrder(order_id, "sell", t)]
    IN  /\ total_pnl' = total_pnl + realized_pnl(closed)
        /\ current_position' = NoPosition
        /\ position_last_update' = t + 1
        /\ now' = t + 2
        /\ sells_ok' = sells_ok + 1
        /\ UNCHANGED buys_ok

\* provider.swap returned: the account records the order.
OrderFilled(order_id, t) ==
    /\ IF call.side = "buy" THEN BuyFilled(order_id, t) ELSE SellFilled(order_id, t)
    /\ pc' = "idle"
    /\ result' = "ok"

\* Variant of OrderFailed: the except branch also stamps the position.
OrderFailed_StampsPosition(t) ==
    /\ pc' = "idle"
    /\ result' = "failed"
    /\ position_last_update' = t
    /\ now' = t + 1
    /\ UNCHANGED <<current_position, total_pnl, buys_ok, sells_ok>>

\* provider.swap raised: buy()/sell() log and re-raise.
OrderFailed(t) ==
    /\ pc' = "idle"
    /\ result' = "failed"
    /\ now' = t
    /\ UNCHANGED <<current_position, total_pnl, position_last_update,
                   buys_ok, sells_ok>>

(* ----------------------------- the pipeline --------------------------- *)

\* Variant of SlippageBps: the slippage is loosened one attempt too early.
SlippageBps_LoosensEarly(i) == <<50, 75, 75>>[i + 1]

\* The slippage of attempt i (0-based) of _do_swap_with_retry.
SlippageBps(i) == <<50, 50, 75>>[i + 1]

\* `if i == 2: raise e`
IsLastAttempt(i) == i = MaxAttempts - 1

\* _get_quote_with_route: `if not quote.routePlan`
RoutePlanMissing(route) == route = "empty"

\* Variant of SimulationRaises: the simulation's error is not looked at.
SimulationRaises_Never(err) == FALSE

\* simulate_transaction: `if simulation.value.err`
SimulationRaises(err) == err # NoErr

\* Variant of StepAfter: the transaction is sent before it is simulated.
StepAfter_SendFirst(step) ==
    CASE step = "quote" -> "build"
      [] step = "build" -> "sign"
      [] step = "sign" -> "send"
      [] step = "send" -> "simulate"
      [] step = "simulate" -> "confirm"

\* _do_swap and _send_signed_transaction: the step that follows `step`.
StepAfter(step) ==
    CASE step = "quote" -> "build"
      [] step = "build" -> "sign"
      [] step = "sign" -> "simulate"
      [] step = "simulate" -> "send"
      [] step = "send" -> "confirm"

\* DryJupiterPrivateAPI overrides _send_transaction_and_wait_for_confirmation.
AfterSign ==
    IF api = "sync" /\ is_dryrun THEN "dry_send" ELSE StepAfter("sign")

\* Variant of new_unique: every fabricated signature is the same one.
new_unique_Repeats(n) == 1

\* Signature.new_unique(): the n-th signature made.
new_unique(n) == n + 1

\* resp.value of send_raw_transaction: the signature of the n-th transaction
\* signed (each attempt signs over a fresh blockhash).
TransactionSignature(n) == n + 1

\* JupiterPrivateAPI._wait_for_confirmation: what one answer means.
StatusOutcome(status) ==
    IF status # NoStatus
    THEN IF status.confirmation_status \in {"confirmed", "finalized"}
         THEN "confirmed"
         ELSE IF status.err # NoErr THEN "failed" ELSE "pending"
    ELSE "pending"

\* AsyncRPCClient.check_signature_is_confirmed: True, or it raises.
check_signature_is_confirmed(dry, status) ==
    IF dry THEN "True"
    ELSE IF status # NoStatus
         THEN IF status.confirmation_status \in {"confirmed", "finalized"}
              THEN "True"
              ELSE IF status.err # NoErr THEN "raise_err" ELSE "raise"
         ELSE "raise"

\* rpc_client.wait_for_confirmation (called by AsyncJupiterService): one
\* answer of check_signature_is_confirmed, read by the polling loop.
wait_for_confirmation(status) ==
    CASE check_signature_is_confirmed(FALSE, status) = "True" -> "confirmed"
      [] check_signature_is_confirmed(FALSE, status) = "raise_err" -> "failed"
      [] OTHER -> "pending"

PollOutcome(status) ==
    IF api = "sync" THEN StatusOutcome(status) ELSE wait_for_confirmation(status)

\* Variant of TimedOut: the timeout is compared with the poll interval.
TimedOut_Early(start, t) == t - start > Seconds(PollInterval)

\* `if time.time() - start > timeout`
TimedOut(start, t) == t - start > Seconds(ConfirmTimeout)

\* The answers the chain can give to status query number n (from 0) of a
\* confirmation: a transaction lands within MaxLandPolls queries or never,
\* and at most MaxSlowConfirms confirmations of a run never land.
StatusesAt(n) ==
    IF n < MaxLandPolls - 1 THEN Statuses
    ELSE IF n = MaxLandPolls - 1
         THEN IF slow_confirms < MaxSlowConfirms
              THEN Statuses ELSE Statuses \ PendingStatuses
         ELSE PendingStatuses

\* The exception that left attempt i of _do_swap, raised by the last step
\* the attempt ran.
Raised(i, ran) == [attempt |-> i, step |-> ran[Len(ran)]]

\* Variant of Reraise: the caller gets a new exception made for the swap.
Reraise_Wrapped(e) == [attempt |-> e.attempt, step |-> "swap"]

\* `raise e` of _do_swap_with_retry and the bare `raise` of buy() and sell():
\* the exception object itself goes up.
Reraise(e) == e

\* An exception left _do_swap at time t: the except branch of
\* _do_swap_with_retry, which logs a warning or, after the last attempt,
\* raises.
AttemptFailed(t) ==
    IF IsLastAttempt(attempt)
    THEN /\ OrderFailed(t)
         /\ surfaced' = Reraise(Raised(attempt, steps'))
         /\ UNCHANGED <<attempt, warnings>>
    ELSE /\ attempt' = attempt + 1
         /\ warnings' = warnings \cup {Raised(attempt, steps').attempt}
         /\ pc' = "quote"
         /\ now' = t
         /\ UNCHANGED <<result, current_position, total_pnl,
                        position_last_update, buys_ok, sells_ok, surfaced>>

(* ------------------------------- Init --------------------------------- *)

Constructed ==
    /\ api \in {"sync", "async"}
    /\ is_dryrun \in BOOLEAN
    /\ now = 0
    /\ current_position = NoPosition
    /\ total_pnl = 0
    /\ balances = NoBalances
    /\ balances_last_update = DatetimeMin
    /\ position_last_update = DatetimeMin
    /\ pc = "idle"
    /\ call = [side |-> "buy", price |-> 1, quantity |-> 1, illegal |-> FALSE]
    /\ attempt = 0
    /\ conf_start = 0
    /\ polls = 0
    /\ next_sig = 0
    /\ cur_sig = NoSig
    /\ result = "none"
    /\ steps = <<>>
    /\ observed = NoObservation
    /\ slippages = <<>>
    /\ sent = {}
    /\ unsettled = {}
    /\ confirmed_sigs = {}
    /\ fabricated = <<>>
    /\ raw_sends = 0
    /\ status_queries = 0
    /\ confirm_end = "none"
    /\ last_status = NoStatus
    /\ pre = [position |-> NoPosition, pnl |-> 0, plu |-> DatetimeMin]
    /\ buys_ok = 0
    /\ sells_ok = 0
    /\ calls = 0
    /\ slow_confirms = 0
    /\ ops = 0
    /\ closed_positions = <<>>
    /\ unread_order = "none"
    /\ last_op = NoOperation
    /\ lpc = "price"
    /\ loop_end = "running"
    /\ ticks = 0
    /\ events = <<>>
    /\ base = [ops |-> 0, calls |-> 0]
    /\ ticker = 1
    /\ signal = NoSignal
    /\ order_done_at = -1
    /\ hasty = FALSE
    /\ surfaced = NoError
    /\ warnings = {}
    /\ websocket = NoSocket
    /\ subscriptions = <<>>
    /\ stream = [up |-> TRUE, alive |-> {}, outages |-> 0, garbled |-> 0]
    /\ gp = NoPriceCall
    /\ delivered = NoDelivery
    /\ price_error = NoError
    /\ target_profit_reached = FALSE
    /\ highest_price_after_target = 0
    /\ last_price = NoLastPrice
    /\ tv_in = [calls |-> 0, price |-> 1, spread |-> NoAttribute,
                position |-> NoPosition, previous |-> NoLastPrice,
                held |-> NoPosition]
    /\ tv_out = [signal |-> NoSignal, at |-> "none"]
    /\ tv_seen = [met |-> FALSE, top |-> 0]
    /\ trailing_highest = 0
    /\ position_peak = 0
    /\ children_called = {}
    /\ composed = [called |-> FALSE, price |-> 1, position |-> NoPosition,
                   held |-> NoPosition, signal |-> NoSignal]
    /\ ticker_history = <<>>
    /\ current_ema = NoEma
    /\ dt_in = [position |-> NoPosition, balance |-> NoBalanceGiven]
    /\ dt_out = [signal |-> NoSignal, at |-> "none", ema |-> NoEma,
                 atr |-> NoEma]
    /\ position_history = <<>>
    /\ last_order_id = NoOrderId
    /\ bt = [index |-> 0, pc |-> "process"]
    /\ rn_in = [called |-> FALSE, position |-> NoPosition, draw |-> 1]
    /\ rn_out = NoSignal
    /\ stop_highest = 0
    /\ ts_in = [called |-> FALSE, price |-> 1, position |-> NoPosition]
    /\ ts_out = NoSignal
    /\ ts_peak = 0
    /\ price_history = <<>>
    /\ last_price_time = DatetimeMin
    /\ wma_in = NotRefreshed
    /\ wma_out = NoSignal
    /\ wma_seen = NotCompared
    /\ tp_in = [called |-> FALSE, price |-> 1, position |-> NoPosition]
    /\ tp_out = NoSignal

\* StrategyComposer() with its default modes
ComposerDefault == sell_mode = "all" /\ buy_mode = "all"

\* No _check_signals has been called.
NothingChecked == signals = <<>> /\ check = NoCheck

\* DynamicTargetStrategy() with its default periods
DynamicDefault == ema_period = 20 /\ atr_period = 14

\* RandomStrategy(sell_chance=100, buy_chance=100), as the tests build it
RandomDefault == buy_chance = 100 /\ sell_chance = 100

\* No conversion has been asked of a mint: one USDC, not yet converted.
MintDefault ==
    /\ mint_decimals = 6
    /\ ui_amount = [coef |-> 1, scale |-> 0]
    /\ converted = NotConverted

\* The objects a run can vary, as built when the run does not vary them.
\* TrailingStopLossStrategy(): stop_loss_percent="1"
TrailDefault == stop_loss_tenths = 10

\* WeightedMovingAverageStrategy(): the defaults of __init__
WmaDefault ==
    /\ short_window = 15
    /\ long_window = 200
    /\ buy_when_short_below = TRUE
    /\ sample_period = 60
    /\ shift_past = 0

\* A strategy driven on its own, outside a run of main
StrategyDefault == strategy = NoStrategy

LaterDefaultExcept(varied) ==
    /\ IF varied = "strategy" THEN TRUE ELSE StrategyDefault
    /\ IF varied = "wma" THEN TRUE ELSE WmaDefault
    /\ IF varied = "trail" THEN TRUE ELSE TrailDefault
    /\ IF varied = "random" THEN TRUE ELSE RandomDefault
    /\ IF varied = "mint" THEN TRUE ELSE MintDefault

LaterDefault == LaterDefaultExcept("none")

\* Everything but the strategy a run varies.
Settled ==
    /\ Constructed
    /\ api = "async"
    /\ is_dryrun = FALSE
    /\ ComposerDefault
    /\ NothingChecked
    /\ DynamicDefault

Init ==
    /\ Constructed
    /\ ComposerDefault
    /\ NothingChecked
    /\ DynamicDefault
    /\ LaterDefault

(* ------------------------------ actions ------------------------------- *)

accountVars == <<current_position, total_pnl, position_last_update,
                 buys_ok, sells_ok>>
cacheVars == <<balances, balances_last_update>>
configVars == <<api, is_dryrun>>
confirmVars == <<conf_start, polls, confirm_end, last_status>>
sigVars == <<next_sig, cur_sig, sent, unsettled, confirmed_sigs, fabricated,
             raw_sends>>
ledgerVars == <<ops, closed_positions, unread_order, last_op>>
loopVars == <<lpc, loop_end, ticks, events, base, ticker, signal,
              order_done_at, hasty>>
retryVars == <<attempt, surfaced, warnings>>
priceVars == <<websocket, subscriptions, stream, gp, delivered, price_error>>
targetVars == <<target_profit_reached, highest_price_after_target,
                last_price, tv_in, tv_out, tv_seen>>
composerVars == <<sell_mode, buy_mode, position_peak, trailing_highest,
                  signals, check,
                  children_called, composed>>
dynamicVars == <<ema_period, atr_period, ticker_history, current_ema,
                 dt_in, dt_out>>
backtestVars == <<position_history, last_order_id, bt>>
randomVars == <<buy_chance, sell_chance, rn_in, rn_out>>
mintVars == <<mint_decimals, ui_amount, converted>>
trailVars == <<stop_loss_tenths, stop_highest, ts_in, ts_out, ts_peak>>
wmaVars == <<short_window, long_window, buy_when_short_below, sample_period,
             shift_past, price_history, last_price_time, wma_in, wma_out,
             wma_seen>>
percentVars == <<tp_in, tp_out>>
variantVars == <<strategy>>
restVars == <<priceVars, targetVars, composerVars, dynamicVars,
    backtestVars,
    randomVars,
    mintVars,
    trailVars,
    wmaVars,
    percentVars,
    variantVars>>

\* place_order(price, side, quantity) up to the call of provider.swap: the
\* gate can_buy / can_sell, with the get_balance it makes. `fetched` is the
\* snapshot the backend would answer, "error" when the RPC read fails.
PlaceOrder(side, price, quantity, fetched) ==
    /\ pc = "idle"
    /\ calls < MaxOrders
    /\ calls' = calls + 1
    /\ call' = [side |-> side, price |-> price, quantity |-> quantity,
                illegal |-> (side = "buy") = (current_position # NoPosition)]
    /\ slippages' = <<>>
    /\ sent' = {}
    /\ unsettled' = {}
    /\ steps' = <<>>
    /\ observed' = NoObservation
    /\ attempt' = 0
    /\ surfaced' = NoError
    /\ warnings' = {}
    /\ pre' = [position |-> current_position, pnl |-> total_pnl,
               plu |-> position_last_update]
    /\ conf_start' = 0
    /\ polls' = 0
    /\ confirm_end' = "none"
    /\ last_status' = NoStatus
    /\ cur_sig' = NoSig
    /\ raw_sends' = 0
    /\ status_queries' = 0
    /\ UNCHANGED <<accountVars, configVars, next_sig, confirmed_sigs,
                   fabricated, slow_confirms, ledgerVars, loopVars,
                   restVars>>
    /\ IF PositionRejects(side, current_position)
       THEN \* ValueError before any balance is read
            /\ fetched = FetchError
            /\ result' = "rejected"
            /\ pc' = "idle"
            /\ UNCHANGED <<now, cacheVars>>
       ELSE IF CacheInvalid(balances, balances_last_update,
                            position_last_update, now)
       THEN IF fetched = FetchError
            THEN \* get_account_balance raised
                 /\ result' = "rejected"
                 /\ pc' = "idle"
                 /\ UNCHANGED <<now, cacheVars>>
            ELSE /\ balances' = fetched
                 /\ balances_last_update' = now
                 /\ now' = now + 1
                 /\ IF BelowMinimum(side, GateBalance(side, fetched))
                    THEN result' = "rejected" /\ pc' = "idle"
                    ELSE result' = "pending" /\ pc' = "quote"
       ELSE /\ fetched = FetchError
            /\ UNCHANGED <<now, cacheVars>>
            /\ IF BelowMinimum(side, GateBalance(side, balances))
               THEN result' = "rejected" /\ pc' = "idle"
               ELSE result' = "pending" /\ pc' = "quote"

stepFrame == <<configVars, cacheVars, call, pre, calls, ledgerVars,
               loopVars,
                   restVars>>
pipelineFrame == <<stepFrame, slow_confirms>>

\* _get_quote_with_route, first step of _do_swap, with this attempt's slippage.
GetQuote(route) ==
    /\ pc = "quote"
    /\ steps' = <<"quote">>
    /\ observed' = [NoObservation EXCEPT !.route = route]
    /\ slippages' = Append(slippages, SlippageBps(attempt))
    /\ IF route = "error" \/ RoutePlanMissing(route)
       THEN AttemptFailed(now)
       ELSE /\ pc' = StepAfter("quote")
            /\ UNCHANGED <<now, retryVars, result, accountVars>>
    /\ conf_start' = 0
    /\ polls' = 0
    /\ confirm_end' = "none"
    /\ last_status' = NoStatus
    /\ cur_sig' = NoSig
    /\ UNCHANGED <<pipelineFrame, next_sig, sent, unsettled, confirmed_sigs,
                   fabricated, raw_sends, status_queries>>

\* _get_swap_transaction
GetSwapTransaction(ok) ==
    /\ pc = "build"
    /\ steps' = Append(steps, "build")
    /\ IF ok
       THEN /\ pc' = StepAfter("build")
            /\ UNCHANGED <<now, retryVars, result, accountVars>>
       ELSE AttemptFailed(now)
    /\ UNCHANGED <<pipelineFrame, confirmVars, sigVars, status_queries,
                   observed, slippages>>

\* _get_signed_transaction: latest blockhash, then the signature.
SignTransaction(ok) ==
    /\ pc = "sign"
    /\ steps' = Append(steps, "sign")
    /\ IF ok
       THEN /\ pc' = AfterSign
            /\ UNCHANGED <<now, retryVars, result, accountVars>>
       ELSE AttemptFailed(now)
    /\ UNCHANGED <<pipelineFrame, confirmVars, sigVars, status_queries,
                   observed, slippages>>

\* simulate_transaction, first half of _send_signed_transaction.
SimulateTransaction(err) ==
    /\ pc = "simulate"
    /\ steps' = Append(steps, "simulate")
    /\ observed' = [observed EXCEPT !.sim = err]
    /\ IF err = "rpc_error" \/ SimulationRaises(err)
       THEN AttemptFailed(now)
       ELSE /\ pc' = StepAfter("simulate")
            /\ UNCHANGED <<now, retryVars, result, accountVars>>
    /\ UNCHANGED <<pipelineFrame, confirmVars, sigVars, status_queries,
                   slippages>>

\* send_transaction, second half of _send_signed_transaction, and the entry
\* of _wait_for_confirmation (start = time.time()).
SendTransaction(ok) ==
    /\ pc = "send"
    /\ steps' = Append(steps, "send")
    /\ IF api = "async" /\ is_dryrun
       THEN \* AsyncRPCClient.send_transaction: a fabricated signature
            /\ ok
            /\ cur_sig' = new_unique(next_sig)
            /\ next_sig' = next_sig + 1
            /\ fabricated' = Append(fabricated, new_unique(next_sig))
            /\ pc' = StepAfter("send")
            /\ conf_start' = now
            /\ polls' = 0
            /\ UNCHANGED <<now, retryVars, result, accountVars, sent, raw_sends>>
       ELSE /\ raw_sends' = raw_sends + 1
            /\ UNCHANGED fabricated
            /\ IF ok
               THEN /\ cur_sig' = TransactionSignature(next_sig)
                    /\ next_sig' = next_sig + 1
                    /\ sent' = sent \cup {TransactionSignature(next_sig)}
                    /\ pc' = StepAfter("send")
                    /\ conf_start' = now
                    /\ polls' = 0
                    /\ UNCHANGED <<now, retryVars, result, accountVars>>
               ELSE /\ AttemptFailed(now)
                    /\ UNCHANGED <<cur_sig, next_sig, sent, conf_start, polls>>
    /\ UNCHANGED <<pipelineFrame, confirm_end, last_status, unsettled,
                   confirmed_sigs, status_queries, observed, slippages>>

\* DryJupiterPrivateAPI._send_transaction_and_wait_for_confirmation: neither
\* simulate, send nor confirm; a fabricated signature.
DrySendAndWait ==
    /\ pc = "dry_send"
    /\ cur_sig' = new_unique(next_sig)
    /\ next_sig' = next_sig + 1
    /\ fabricated' = Append(fabricated, new_unique(next_sig))
    /\ OrderFilled(new_unique(next_sig), now)
    /\ UNCHANGED <<pipelineFrame, confirmVars, retryVars, steps, observed,
                   slippages, sent, unsettled, confirmed_sigs, raw_sends,
                   status_queries>>

\* One round of the confirmation: a status query, its verdict, the timeout
\* test and the sleep.
ConfirmPoll(status) ==
    /\ pc = "confirm"
    /\ steps' = IF polls = 0 THEN Append(steps, "confirm") ELSE steps
    /\ polls' = polls + 1
    /\ IF api = "async" /\ is_dryrun
       THEN \* check_signature_is_confirmed returns True without a query
            /\ status = NoStatus
            /\ check_signature_is_confirmed(is_dryrun, status) = "True"
            /\ confirm_end' = "success"
            /\ OrderFilled(cur_sig, now)
            /\ UNCHANGED <<status_queries, last_status, unsettled, retryVars,
                           confirmed_sigs>>
       ELSE /\ status \in StatusesAt(polls)
            /\ status_queries' = status_queries + 1
            /\ last_status' = status
            /\ confirmed_sigs' =
                  IF status # NoStatus
                     /\ status.confirmation_status \in {"confirmed", "finalized"}
                  THEN confirmed_sigs \cup {cur_sig} ELSE confirmed_sigs
            /\ CASE PollOutcome(status) = "confirmed" ->
                      /\ confirm_end' = "success"
                      /\ OrderFilled(cur_sig, now)
                      /\ UNCHANGED <<unsettled, retryVars>>
                 [] PollOutcome(status) = "failed" ->
                      /\ confirm_end' = "execution_failed"
                      /\ AttemptFailed(now)
                      /\ UNCHANGED unsettled
                 [] OTHER ->
                      IF TimedOut(conf_start, now)
                      THEN /\ confirm_end' = "timeout"
                           /\ unsettled' = unsettled \cup {cur_sig}
                           /\ AttemptFailed(now)
                      ELSE /\ confirm_end' = "none"
                           /\ now' = now + Seconds(PollInterval)
                           /\ UNCHANGED <<pc, retryVars, result, accountVars,
                                          unsettled>>
    /\ slow_confirms' =
          IF ~(api = "async" /\ is_dryrun) /\ polls = MaxLandPolls - 1
             /\ PollOutcome(status) = "pending"
          THEN slow_confirms + 1 ELSE slow_confirms
    /\ UNCHANGED <<stepFrame, conf_start, next_sig, cur_sig, sent,
                   fabricated, raw_sends, observed, slippages>>

Next ==
    \/ \E side \in Sides, price \in Prices, quantity \in Quantities,
          fetched \in {FetchError} \cup [input : InputBalances, output : OutputBalances] :
          PlaceOrder(side, price, quantity, fetched)
    \/ \E route \in {"route", "empty", "error"} : GetQuote(route)
    \/ \E ok \in BOOLEAN : GetSwapTransaction(ok)
    \/ \E ok \in BOOLEAN : SignTransaction(ok)
    \/ \E err \in {NoErr, "InstructionError", "rpc_error"} : SimulateTransaction(err)
    \/ \E ok \in BOOLEAN : SendTransaction(ok)
    \/ DrySendAndWait
    \/ \E status \in Statuses : ConfirmPoll(status)

Spec == Init /\ [][Next]_vars

(* ---------------------- the account on its own ------------------------ *)
(* AsyncAccount driven call by call, with provider.swap as one call that   *)
(* returns an order id or raises.                                          *)

AccountQuantities == 1..MaxAccountQuantity

\* How long the caller may wait between two account calls: up to the cache's
\* lifetime exactly, or past it.
Waits == {Seconds(CacheMinutes * 60) - 1, Seconds(CacheMinutes * 60)}

pipelineVars == <<configVars, pc, call, retryVars, confirmVars, cur_sig, sent,
                  unsettled, confirmed_sigs, fabricated, raw_sends,
                  status_queries, steps, observed, slippages, calls,
                  slow_confirms>>

\* Order(...) as buy() and sell() build it.
Order(order_id, side, price, quantity, t) ==
    [order_id |-> order_id, quantity |-> quantity, price |-> price,
     side |-> side, timestamp |-> t]

\* What a get_balance call at time t finds in the cache.
CacheFound(t) ==
    [snapshot |-> balances # NoBalances,
     fresh |-> t - balances_last_update <= Seconds(CacheMinutes * 60),
     position_unchanged |-> position_last_update <= balances_last_update]

\* The body of buy() after provider.swap returned order_id at time t.
buy(price, quantity, order_id, t) ==
    /\ current_position' =
          [type |-> "long",
           entry_order |-> Order(order_id, "buy", price, quantity, t),
           exit_order |-> NoOrder]
    /\ position_last_update' = t + 1
    /\ now' = t + 2
    /\ buys_ok' = buys_ok + 1
    /\ UNCHANGED <<total_pnl, sells_ok, closed_positions>>

\* The body of sell() after provider.swap returned order_id at time t.
sell(price, quantity, order_id, t) ==
    LET exited == [current_position EXCEPT
                     !.exit_order = Order(order_id, "sell", price, quantity, t)]
    IN  /\ total_pnl' = total_pnl + realized_pnl(exited)
        /\ closed_positions' = Append(closed_positions, exited)
        /\ current_position' = NoPosition
        /\ position_last_update' = t + 1
        /\ now' = t + 2
        /\ sells_ok' = sells_ok + 1
        /\ UNCHANGED buys_ok

\* get_balance(input_mint) called on its own, as the loop does before the
\* strategy.  `fetched` is what the backend would answer.
get_balance(fetched) ==
    LET invalid == CacheInvalid(balances, balances_last_update,
                                position_last_update, now)
        raised == invalid /\ fetched = FetchError
    IN  /\ pc = "idle"
        /\ ops < MaxAccountOps
        /\ ops' = ops + 1
        /\ ~invalid => fetched = FetchError
        /\ IF invalid /\ ~raised
           THEN /\ balances' = fetched
                /\ balances_last_update' = now
                /\ now' = now + 1
           ELSE UNCHANGED <<now, cacheVars>>
        /\ last_op' =
              [NoOperation EXCEPT
                 !.op = "get_balance", !.read = TRUE, !.fetched = invalid,
                 !.raised = raised, !.after = unread_order,
                 !.snapshot = CacheFound(now).snapshot,
                 !.fresh = CacheFound(now).fresh,
                 !.position_unchanged = CacheFound(now).position_unchanged,
                 !.outcome = IF raised THEN "failed" ELSE "ok"]
        /\ unread_order' = IF raised THEN unread_order ELSE "none"
        /\ UNCHANGED <<accountVars, pipelineVars, next_sig, result, pre,
                       closed_positions, loopVars,
                   restVars>>

\* place_order(price, side, quantity) as one call: the gate, provider.swap
\* (which returns when swap_ok and raises otherwise) and the position update.
place_order(side, price, quantity, fetched, swap_ok) ==
    LET rejects == PositionRejects(side, current_position)
        invalid == CacheInvalid(balances, balances_last_update,
                                position_last_update, now)
        backend == ~rejects /\ invalid
        raised == backend /\ fetched = FetchError
        refreshed == backend /\ ~raised
        snapshot == IF refreshed THEN fetched ELSE balances
        t == IF refreshed THEN now + 1 ELSE now
        gate_ok == /\ ~rejects
                   /\ ~raised
                   /\ ~BelowMinimum(side, GateBalance(side, snapshot))
        filled == gate_ok /\ swap_ok
        order_id == TransactionSignature(next_sig)
        outcome == IF filled THEN "ok"
                   ELSE IF gate_ok THEN "failed" ELSE "rejected"
    IN  /\ pc = "idle"
        /\ ops < MaxAccountOps
        /\ ops' = ops + 1
        /\ ~backend => fetched = FetchError
        /\ ~gate_ok => ~swap_ok
        /\ pre' = [position |-> current_position, pnl |-> total_pnl,
                   plu |-> position_last_update]
        /\ balances' = snapshot
        /\ balances_last_update' =
              IF refreshed THEN now ELSE balances_last_update
        /\ IF filled
           THEN /\ IF side = "buy"
                   THEN buy(price, quantity, order_id, t)
                   ELSE sell(price, quantity, order_id, t)
                /\ next_sig' = next_sig + 1
           ELSE /\ now' = t
                /\ UNCHANGED <<accountVars, closed_positions, next_sig>>
        /\ result' = outcome
        /\ unread_order' =
              IF outcome = "ok" \/ ((rejects \/ raised) /\ unread_order = "ok")
              THEN "ok" ELSE outcome
        /\ last_op' =
              [NoOperation EXCEPT
                 !.op = "place_order", !.side = side, !.read = ~rejects,
                 !.fetched = backend, !.raised = raised,
                 !.after = IF rejects THEN "none" ELSE unread_order,
                 !.prev_read = last_op.op = "get_balance" /\ ~last_op.raised,
                 !.snapshot = CacheFound(now).snapshot,
                 !.fresh = CacheFound(now).fresh,
                 !.position_unchanged = CacheFound(now).position_unchanged,
                 !.balance = IF ~rejects /\ ~raised
                             THEN GateBalance(side, snapshot) ELSE -1,
                 !.swapped = gate_ok, !.outcome = outcome]
        /\ UNCHANGED <<pipelineVars, loopVars,
                   restVars>>

\* Time passes between two account calls (the loop waits for the next price).
Elapse(d) ==
    /\ pc = "idle"
    /\ ops < MaxAccountOps
    /\ last_op.op # "elapse"
    /\ ops' = ops + 1
    /\ now' = now + d
    /\ last_op' = [NoOperation EXCEPT !.op = "elapse"]
    /\ UNCHANGED <<accountVars, cacheVars, pipelineVars, next_sig, result,
                   pre, closed_positions, unread_order, loopVars,
                   restVars>>

AccountNext ==
    \/ \E fetched \in {FetchError} \cup [input : InputBalances, output : OutputBalances] :
          get_balance(fetched)
    \/ \E side \in Sides, price \in Prices, quantity \in AccountQuantities,
          fetched \in {FetchError} \cup [input : InputBalances, output : OutputBalances],
          swap_ok \in BOOLEAN :
          place_order(side, price, quantity, fetched, swap_ok)
    \/ \E d \in Waits : Elapse(d)

\* The account is built around the async provider in real mode; neither
\* setting is read by the account itself.
AccountInit == Init /\ api = "async" /\ is_dryrun = FALSE

AccountSpec == AccountInit /\ [][AccountNext]_vars

(* -------------------------- the trading loop -------------------------- *)
(* AsyncWebsocketTradingBot._run: one task that awaits each call in turn.   *)
(* An iteration records in `events` what it has done: "price", "strategy",  *)
(* "order" (place_order returned an order), "observe", and "error" or       *)
(* "closed" for the exception that ended it.                                *)

\* The settle wait the loop is specified to make after an order.
SettleWait == 2

Signals == [side : Sides, quantity : Quantities]
StrategyRaises == [raises |-> TRUE]

\* OrderSignal(side, quantity): the dataclass has two required fields, so a
\* call without the quantity raises TypeError.
OrderSignal(side, quantity) ==
    IF quantity = NoQuantity
    THEN StrategyRaises
    ELSE [side |-> side, quantity |-> quantity]

\* What a strategy's on_market_refresh can end with: None, an exception, or
\* the construction of an OrderSignal, with a quantity or without one.
StrategyOutcomes ==
    {NoSignal, StrategyRaises} \cup Signals \cup
    [side : Sides, quantity : {NoQuantity}]

Running == loop_end = "running"

\* Variant of OrderReturned: the loop does not wait for place_order.
OrderReturned_AtOnce(p) == TRUE

\* `await self.account.place_order(...)` ends when the call has returned or
\* raised.
OrderReturned(p) == p = "idle"

\* `except Exception`: the error is logged and the while loop goes round.
LoopCatches(done) ==
    /\ events' = Append(done, "error")
    /\ lpc' = "price"
    /\ UNCHANGED loop_end

loopFrame == <<accountVars, cacheVars, pipelineVars, next_sig, result, pre,
               ledgerVars, restVars>>

\* get_price and log_ticker, the start of an iteration.
LoopGetPrice(outcome, price) ==
    /\ Running
    /\ lpc = "price"
    /\ ticks < MaxTicks
    /\ ticks' = ticks + 1
    /\ base' = [ops |-> ops, calls |-> calls]
    /\ signal' = NoSignal
    /\ hasty' = (\/ hasty
                 \/ /\ order_done_at >= 0
                    /\ now - order_done_at < Seconds(SettleWait))
    /\ order_done_at' = -1
    /\ CASE outcome = "ok" ->
              /\ ticker' = price
              /\ events' = <<"price">>
              /\ lpc' = "balance"
              /\ UNCHANGED loop_end
         [] outcome = "error" ->
              /\ price = ticker
              /\ LoopCatches(<<"price">>)
              /\ UNCHANGED ticker
         [] outcome = "connection_closed" ->
              \* `except ConnectionClosedError: ... break`
              /\ price = ticker
              /\ events' = <<"price", "closed">>
              /\ lpc' = "stopped"
              /\ loop_end' = "connection_closed"
              /\ UNCHANGED ticker
    /\ UNCHANGED <<loopFrame, now>>

\* process_market_data: the balance read that is the strategy's argument.
LoopGetBalance(fetched) ==
    /\ Running
    /\ lpc = "balance"
    /\ ops = base.ops
    /\ get_balance(fetched)

\* That get_balance raised: the iteration ends in `except Exception`.
LoopBalanceFailed ==
    /\ Running
    /\ lpc = "balance"
    /\ ops > base.ops
    /\ last_op.raised
    /\ LoopCatches(events)
    /\ UNCHANGED <<loopFrame, now, ticks, base, ticker, signal,
                   order_done_at, hasty>>

\* strategy.on_market_refresh(ticker, balance, position): no signal, a signal,
\* or an exception.  The loop passes the signal on as it is; it never calls
\* calculate_quantity.
LoopStrategy(outcome) ==
    /\ Running
    /\ lpc = "balance"
    /\ ops > base.ops
    /\ ~last_op.raised
    /\ LET answer == IF outcome \in {NoSignal, StrategyRaises} THEN outcome
                      ELSE OrderSignal(outcome.side, outcome.quantity)
       IN  CASE answer = StrategyRaises ->
                  /\ LoopCatches(Append(events, "strategy"))
                  /\ UNCHANGED signal
             [] answer = NoSignal ->
                  /\ events' = Append(events, "strategy")
                  /\ lpc' = "observe"
                  /\ UNCHANGED <<signal, loop_end>>
             [] OTHER ->
                  /\ calls < MaxOrders
                  /\ events' = Append(events, "strategy")
                  /\ signal' = answer
                  /\ lpc' = "place"
                  /\ UNCHANGED loop_end
    /\ UNCHANGED <<loopFrame, now, ticks, base, ticker, order_done_at, hasty>>

\* account.place_order(current_ticker.last, signal.side, signal.quantity)
LoopPlaceOrder(fetched) ==
    /\ Running
    /\ lpc = "place"
    /\ calls = base.calls
    /\ PlaceOrder(signal.side, ticker, signal.quantity, fetched)

\* place_order is over: its order is logged, or its exception is.
LoopOrderReturned ==
    /\ Running
    /\ lpc = "place"
    /\ calls > base.calls
    /\ OrderReturned(pc)
    /\ IF result = "ok"
       THEN /\ events' = Append(events, "order")
            /\ order_done_at' = now
            /\ lpc' = "observe"
            /\ UNCHANGED loop_end
       ELSE /\ LoopCatches(events)
            /\ UNCHANGED order_done_at
    /\ UNCHANGED <<loopFrame, now, ticks, base, ticker, signal, hasty>>

\* get_position and log_position, the end of an iteration.
LoopObserve ==
    /\ Running
    /\ lpc = "observe"
    /\ events' = Append(events, "observe")
    /\ lpc' = "price"
    /\ UNCHANGED <<loopFrame, now, loop_end, ticks, base, ticker, signal,
                   order_done_at, hasty>>

\* The interrupt is raised in the task wherever it stands; no handler below
\* the loop catches it (`except Exception` does not), and the loop returns.
Interrupt ==
    /\ Running
    /\ loop_end' = "interrupt"
    /\ lpc' = "stopped"
    /\ UNCHANGED <<loopFrame, now, ticks, events, base, ticker, signal,
                   order_done_at, hasty>>

InPlaceOrder == Running /\ lpc = "place"

LoopNext ==
    \/ \E outcome \in {"ok", "error", "connection_closed"}, price \in Prices :
          LoopGetPrice(outcome, price)
    \/ \E fetched \in {FetchError} \cup [input : InputBalances, output : OutputBalances] :
          LoopGetBalance(fetched)
    \/ LoopBalanceFailed
    \/ \E outcome \in StrategyOutcomes : LoopStrategy(outcome)
    \/ \E fetched \in {FetchError} \cup [input : InputBalances, output : OutputBalances] :
          LoopPlaceOrder(fetched)
    \/ \E route \in {"route", "empty", "error"} : InPlaceOrder /\ GetQuote(route)
    \/ \E ok \in BOOLEAN : InPlaceOrder /\ GetSwapTransaction(ok)
    \/ \E ok \in BOOLEAN : InPlaceOrder /\ SignTransaction(ok)
    \/ \E err \in {NoErr, "InstructionError", "rpc_error"} :
          InPlaceOrder /\ SimulateTransaction(err)
    \/ \E ok \in BOOLEAN : InPlaceOrder /\ SendTransaction(ok)
    \/ \E status \in Statuses : InPlaceOrder /\ ConfirmPoll(status)
    \/ LoopOrderReturned
    \/ LoopObserve
    \/ Interrupt

\* The loop runs the async engine, in real mode or in dry-run.
LoopInit == Init /\ api = "async"

LoopSpec == LoopInit /\ [][LoopNext]_vars

(* -------------------------- the market source ------------------------- *)
(* AsyncJupiterClient.get_price over the price websocket.  A connection is  *)
(* named by the order in which it was opened; subscriptions[c] is the mint   *)
(* connection c subscribed to, "none" when the subscribe message was never   *)
(* sent.  The stream can drop (every live connection dies) and come back.    *)

Mints == {"mint_out", "mint_other"}

engineVars == <<accountVars, cacheVars, pipelineVars, next_sig, result, pre,
                ledgerVars, loopVars>>
priceFrame == <<engineVars, targetVars, composerVars, dynamicVars,
    backtestVars,
    randomVars,
    mintVars,
    trailVars,
    wmaVars,
    percentVars,
    variantVars>>

\* Variant of Caught: only a lost connection is handled inside get_price.
Caught_ConnectionOnly(cause) == cause \in {"connect", "subscribe", "closed"}

\* `except Exception as ex` of get_price: every exception of the connect, the
\* subscribe, the receive and the parsing of the message is caught.
Caught(cause) == TRUE

\* Variant of ReconnectMint: the reconnect subscribes to a fixed mint.
ReconnectMint_Default(mint) == "mint_out"

\* `return await self.get_price(mint)`: the retry asks for the same mint.
ReconnectMint(mint) == mint

\* An exception was raised inside the try block of get_price.
PriceFailed(cause) ==
    IF Caught(cause)
    THEN /\ gp' = [gp EXCEPT !.pc = "sleep", !.failures = @ + 1,
                             !.cause = cause, !.failed_at = now]
         /\ UNCHANGED <<price_error, delivered>>
    ELSE /\ gp' = [gp EXCEPT !.pc = "idle", !.cause = cause,
                             !.failed_at = now]
         /\ price_error' = [cause |-> cause]
         /\ delivered' = NoDelivery

\* The caller awaits get_price(mint).
GetPrice(mint) ==
    /\ gp.pc = "idle"
    /\ gp.calls < MaxPriceCalls
    /\ gp' = [NoPriceCall EXCEPT
                !.pc = IF websocket = NoSocket THEN "connect" ELSE "recv",
                !.requested = mint, !.mint = mint, !.calls = gp.calls + 1]
    /\ price_error' = NoError
    /\ delivered' = NoDelivery
    /\ UNCHANGED <<priceFrame, now, websocket, subscriptions, stream>>

\* _connect_price_ws: websockets.connect(...)
ConnectPriceWs ==
    /\ gp.pc = "connect"
    /\ IF stream.up
       THEN /\ subscriptions' = Append(subscriptions, "none")
            /\ stream' = [stream EXCEPT
                            !.alive = @ \cup {Len(subscriptions) + 1}]
            /\ gp' = [gp EXCEPT !.pc = "subscribe", !.connected_at = now]
            /\ UNCHANGED <<price_error, delivered>>
       ELSE \* an outage outlasts at most MaxRetries attempts of a call
            /\ gp.failures < MaxRetries
            /\ PriceFailed("connect")
            /\ UNCHANGED <<subscriptions, stream>>
    /\ UNCHANGED <<priceFrame, now, websocket>>

\* _connect_price_ws: ws.send(subscribe:prices for the mint), then
\* self.websocket = ws.
SubscribePrices ==
    /\ gp.pc = "subscribe"
    /\ IF Len(subscriptions) \in stream.alive
       THEN /\ subscriptions' =
                  [subscriptions EXCEPT ![Len(subscriptions)] = gp.mint]
            /\ websocket' = Len(subscriptions)
            /\ gp' = [gp EXCEPT !.pc = "recv"]
            /\ UNCHANGED <<price_error, delivered>>
       ELSE /\ PriceFailed("subscribe")
            /\ UNCHANGED <<subscriptions, websocket>>
    /\ UNCHANGED <<priceFrame, now, stream>>

\* _get_price: ws.recv(), json.loads and Decimal of the price.  A dead
\* connection raises; a live one delivers a price message or, at most
\* MaxGarbled times, a message that does not parse.
ReceivePrice(message, price) ==
    /\ gp.pc = "recv"
    /\ IF websocket \notin stream.alive
       THEN /\ message = "closed"
            /\ price = 1
            /\ PriceFailed("closed")
            /\ UNCHANGED stream
       ELSE CASE message = "price" ->
                   /\ gp' = [gp EXCEPT !.pc = "idle"]
                   /\ delivered' = [price |-> price, connection |-> websocket,
                                    mint |-> subscriptions[websocket]]
                   /\ UNCHANGED <<price_error, stream>>
              [] message = "malformed" ->
                   /\ price = 1
                   /\ stream.garbled < MaxGarbled
                   /\ stream' = [stream EXCEPT !.garbled = @ + 1]
                   /\ PriceFailed("malformed")
              [] OTHER -> FALSE
    /\ UNCHANGED <<priceFrame, now, websocket, subscriptions>>

\* The except branch after the log: asyncio.sleep(2), self.websocket = None,
\* and get_price again for the same mint.
SleepAndRetry ==
    /\ gp.pc = "sleep"
    /\ now' = now + Seconds(ReconnectWait)
    /\ websocket' = NoSocket
    /\ gp' = [gp EXCEPT !.pc = "connect", !.mint = ReconnectMint(@)]
    /\ UNCHANGED <<priceFrame, subscriptions, stream, delivered, price_error>>

\* The stream goes away: every live connection is lost.
StreamDrops ==
    /\ stream.up
    /\ stream.outages < MaxOutages
    /\ stream' = [stream EXCEPT !.up = FALSE, !.alive = {},
                                !.outages = @ + 1]
    /\ UNCHANGED <<priceFrame, now, websocket, subscriptions, gp, delivered,
                   price_error>>

\* The stream is reachable again.
StreamReturns ==
    /\ ~stream.up
    /\ stream' = [stream EXCEPT !.up = TRUE]
    /\ UNCHANGED <<priceFrame, now, websocket, subscriptions, gp, delivered,
                   price_error>>

PriceClientNext ==
    \/ ConnectPriceWs
    \/ SubscribePrices
    \/ \E message \in {"price", "malformed", "closed"}, price \in Prices :
          ReceivePrice(message, price)
    \/ SleepAndRetry

PriceNext ==
    \/ \E mint \in Mints : GetPrice(mint)
    \/ PriceClientNext
    \/ StreamDrops
    \/ StreamReturns

PriceInit == Init /\ api = "async" /\ is_dryrun = FALSE

PriceSpec == PriceInit /\ [][PriceNext]_vars

\* The client's task is scheduled whenever it can run, and an outage ends.
PriceFairSpec ==
    PriceSpec /\ WF_vars(PriceClientNext) /\ WF_vars(StreamReturns)

(* ---------------------------- the strategies -------------------------- *)
(* Each strategy is driven call by call: on_market_refresh(ticker, balance, *)
(* position) with a ticker and the position the account holds at that tick.  *)
(* Between two ticks the account may have opened a position or closed the    *)
(* one it held; it never swaps one open position for another.  Prices are    *)
(* whole numbers and every percentage test is cross-multiplied, which agrees *)
(* with the Decimal quotient for parameters of a few digits.                 *)

StrategyPrices == 1..MaxStrategyPrice

(* TargetValueStrategy, with the parameters of a run. *)
TargetBuyPrice == 2
TargetProfitPercent == 50
StopLossPercent == 25
MaxSpreadTenths == 15

\* A ticker as a strategy reads it.  TickerData has no spread field
\* (NoAttribute); tickers built with one carry None or a value, in tenths of
\* a percent.
Spreads == {NoAttribute, NoSpread} \cup
           [value : {MaxSpreadTenths, MaxSpreadTenths + 1}]

\* Position(LONG, entry_order, None) as the account builds it.
LongPosition(price, quantity) ==
    [type |-> "long",
     entry_order |-> Order(1, "buy", price, quantity, 0),
     exit_order |-> NoOrder]

StrategyPositions ==
    {LongPosition(price, quantity) :
        price \in StrategyPrices, quantity \in AccountQuantities}

\* The positions the next tick can come with, after one that came with held.
PositionsAfter(held) ==
    IF held = NoPosition
    THEN {NoPosition} \cup StrategyPositions
    ELSE {held, NoPosition}

Max(a, b) == IF a >= b THEN a ELSE b

\* profit_percent >= percent, for percent given in tenths
ProfitAtLeast(price, entry, tenths) ==
    (price - entry) * 1000 >= tenths * entry

\* drop_percent >= stop_loss_percent
DropAtLeast(highest, price, percent) ==
    (highest - price) * 100 >= percent * highest

\* Variant of TargetHit: once latched, any price keeps the stop armed.
TargetHit_LatchOnly(reached, price, entry) ==
    reached \/ ProfitAtLeast(price, entry, 10 * TargetProfitPercent)

\* `if profit_percent >= self.target_profit_percent or
\*  (self.target_profit_reached and profit_percent >= ... - Decimal("1.1"))`
TargetHit(reached, price, entry) ==
    \/ ProfitAtLeast(price, entry, 10 * TargetProfitPercent)
    \/ /\ reached
       /\ ProfitAtLeast(price, entry, 10 * TargetProfitPercent - ProfitSlackTenths)

\* TargetValueStrategy.on_market_refresh on the state s = [reached, highest,
\* last]: the state it leaves, what it returns and the statement it returns
\* from.  (price_history, same_target_count and position_periods are written
\* and never read.)
TargetValueRefresh(s, price, spread, position) ==
    IF position = NoPosition
    THEN LET s1 == [s EXCEPT !.reached = FALSE, !.highest = 0]
         IN  IF price <= TargetBuyPrice
             THEN IF spread = NoAttribute
                  THEN [state |-> s1, signal |-> StrategyRaises,
                        at |-> "spread"]
                  ELSE IF spread # NoSpread /\ spread.value > MaxSpreadTenths
                  THEN [state |-> s1, signal |-> NoSignal,
                        at |-> "skip_spread"]
                  ELSE IF s.last = NoLastPrice \/ price < s.last
                  THEN [state |-> [s1 EXCEPT !.last = price],
                        signal |-> NoSignal, at |-> "skip_falling"]
                  ELSE [state |-> s1,
                        signal |-> OrderSignal("buy", NoQuantity),
                        at |-> "buy"]
             ELSE [state |-> [s1 EXCEPT !.last = price], signal |-> NoSignal,
                   at |-> "end"]
    ELSE LET entry == position.entry_order.price
             first == IF s.reached THEN s.highest ELSE price
             top == Max(first, price)
             s1 == [s EXCEPT !.reached = TRUE, !.highest = top]
         IN  IF TargetHit(s.reached, price, entry)
             THEN IF DropAtLeast(top, price, StopLossPercent)
                  THEN [state |-> s1,
                        signal |-> OrderSignal("sell",
                                               position.entry_order.quantity),
                        at |-> "sell"]
                  ELSE [state |-> [s1 EXCEPT !.last = price],
                        signal |-> NoSignal, at |-> "end"]
             ELSE [state |-> [s EXCEPT !.last = price], signal |-> NoSignal,
                   at |-> "end"]

targetFrame == <<engineVars, now, priceVars, composerVars, dynamicVars,
    backtestVars,
    randomVars,
    mintVars,
    trailVars,
    wmaVars,
    percentVars,
    variantVars>>

\* One tick given to a TargetValue strategy.
TargetValueTick(price, spread, position) ==
    LET s == [reached |-> target_profit_reached,
              highest |-> highest_price_after_target,
              last |-> last_price]
        r == TargetValueRefresh(s, price, spread, position)
        continued == position # NoPosition /\ position = tv_in.position
        met == /\ position # NoPosition
               /\ \/ continued /\ tv_seen.met
                  \/ ProfitAtLeast(price, position.entry_order.price,
                                   10 * TargetProfitPercent)
    IN  /\ position \in PositionsAfter(tv_in.position)
        /\ target_profit_reached' = r.state.reached
        /\ highest_price_after_target' = r.state.highest
        /\ last_price' = r.state.last
        /\ tv_in' = [calls |-> IF tv_in.calls < 2 THEN tv_in.calls + 1 ELSE 2,
                     price |-> price, spread |-> spread, position |-> position,
                     previous |-> IF tv_in.calls = 0 THEN NoLastPrice
                                  ELSE tv_in.price,
                     held |-> tv_in.position]
        /\ tv_out' = [signal |-> r.signal, at |-> r.at]
        /\ tv_seen' =
              [met |-> met,
               top |-> IF ~met THEN 0
                       ELSE IF continued /\ tv_seen.met
                            THEN Max(tv_seen.top, price) ELSE price]
        /\ UNCHANGED targetFrame

TargetNext ==
    \E price \in StrategyPrices, spread \in Spreads,
       position \in {NoPosition} \cup StrategyPositions :
       TargetValueTick(price, spread, position)

TargetInit == Init /\ api = "async" /\ is_dryrun = FALSE

TargetSpec == TargetInit /\ [][TargetNext]_vars

(* StrategyComposer. *)


\* `assert sell_mode in ("all", "any")`, and the same for buy_mode
ComposerModes == {"all", "any"}

\* What a child's on_market_refresh can hand back to the composer.
ChildSignals == {NoSignal} \cup [side : Sides, quantity : AccountQuantities]

SignalLists ==
    UNION {[1..n -> ChildSignals] : n \in 0..MaxSignals}

\* Variant of SignalMatches: any signal counts, whatever its side.
SignalMatches_AnySide(s, side) == s # NoSignal

\* `s and s.side == side`: None is falsy, an OrderSignal is truthy.
SignalMatches(s, side) == s # NoSignal /\ s.side = side

RECURSIVE AllMatch(_, _)
\* all(s and s.side == side for s in signals)
AllMatch(list, side) ==
    IF list = <<>> THEN TRUE
    ELSE SignalMatches(Head(list), side) /\ AllMatch(Tail(list), side)

RECURSIVE AnyMatch(_, _)
\* any(s and s.side == side for s in signals)
AnyMatch(list, side) ==
    IF list = <<>> THEN FALSE
    ELSE SignalMatches(Head(list), side) \/ AnyMatch(Tail(list), side)

\* StrategyComposer._check_signals
check_signals(list, mode, side) ==
    IF mode = "all" THEN AllMatch(list, side)
    ELSE IF mode = "any" THEN AnyMatch(list, side)
    ELSE FALSE

composerFrame == <<engineVars, now, priceVars, targetVars, dynamicVars,
    backtestVars,
    randomVars,
    mintVars,
    trailVars,
    wmaVars,
    percentVars,
    variantVars>>

\* _check_signals applied to the list, mode and side of the run.
CheckSignals ==
    /\ ~check.done
    /\ check' = [check EXCEPT
                    !.done = TRUE,
                    !.value = check_signals(signals, check.mode, check.side)]
    /\ UNCHANGED <<composerFrame, sell_mode, buy_mode, position_peak,
                   trailing_highest,
                   signals, children_called, composed>>

CheckInit ==
    /\ Constructed
    /\ api = "async"
    /\ is_dryrun = FALSE
    /\ ComposerDefault
    /\ DynamicDefault
    /\ LaterDefault
    /\ signals \in SignalLists
    /\ check \in [mode : ComposerModes, side : Sides, done : {FALSE},
                   value : {FALSE}]

CheckSpec == CheckInit /\ [][CheckSignals]_vars

\* The children the constructor builds, in list order.
BuyChildren == <<"wma_25_100", "wma_6_12_shift_10", "wma_6_12_above">>
SellChildren == <<"trailing_stop_loss", "target_percent">>
Children(list) == {list[i] : i \in 1..Len(list)}

\* TrailingStopLossStrategy(stop_loss_percent="0.2") and
\* TargetPercentStrategy(target_percent="0.5"), in tenths of a percent
TrailingStopTenths == 2
TargetPercentTenths == 5

\* TrailingStopLossStrategy.on_market_refresh with stop_loss_percent given
\* in tenths: the highest price it leaves and what it returns.
TrailingStopRefreshAt(tenths, highest, price, position) ==
    IF position = NoPosition
    THEN [highest |-> 0, signal |-> OrderSignal("buy", NoQuantity)]
    ELSE LET top == IF price > highest THEN price ELSE highest
         IN  [highest |-> top,
              signal |-> IF (top - price) * 1000 >= tenths * top
                         THEN OrderSignal("sell",
                                          position.entry_order.quantity)
                         ELSE NoSignal]

\* The composer's child, TrailingStopLossStrategy(stop_loss_percent="0.2")
TrailingStopRefresh(highest, price, position) ==
    TrailingStopRefreshAt(TrailingStopTenths, highest, price, position)

\* TargetPercentStrategy.on_market_refresh (the percentage is taken of the
\* current price)
TargetPercentRefresh(price, position) ==
    IF position = NoPosition
    THEN OrderSignal("buy", NoQuantity)
    ELSE IF (price - position.entry_order.price) * 1000
               >= TargetPercentTenths * price
         THEN OrderSignal("sell", position.entry_order.quantity)
         ELSE NoSignal

\* WeightedMovingAverageStrategy.on_market_refresh as the composer sees it:
\* None while the history is short, the averages do not cross or a position
\* is open; otherwise it reaches `return OrderSignal(OrderSide.BUY)`.
WmaOutcomes(position) ==
    IF position = NoPosition THEN {NoSignal, StrategyRaises} ELSE {NoSignal}

\* StrategyComposer.on_market_refresh(ticker, balance, current_position);
\* wma[i] is what the i-th buy strategy does with this ticker.  An exception
\* raised by a child leaves the composer at once.
ComposerRefresh(price, position, wma) ==
    LET outcome(value) ==
            [called |-> TRUE, price |-> price, position |-> position,
             held |-> composed.position, signal |-> value]
    IN  /\ position \in PositionsAfter(composed.position)
        /\ \A i \in 1..Len(BuyChildren) : wma[i] \in WmaOutcomes(position)
        /\ IF position # NoPosition
           THEN LET stop == TrailingStopRefresh(trailing_highest, price,
                                                position)
                    target == TargetPercentRefresh(price, position)
                    list == <<stop.signal, target>>
                    ok == check_signals(list, sell_mode, "sell")
                IN  /\ trailing_highest' = stop.highest
                    /\ signals' = list
                    /\ check' = [mode |-> sell_mode, side |-> "sell",
                                 done |-> TRUE, value |-> ok]
                    /\ children_called' = Children(SellChildren)
                    /\ composed' = outcome(
                          IF ok
                          THEN OrderSignal("sell",
                                           position.entry_order.quantity)
                          ELSE NoSignal)
           ELSE LET raising == {i \in 1..Len(BuyChildren) :
                                   wma[i] = StrategyRaises}
                    first == CHOOSE i \in raising :
                                 \A j \in raising : i <= j
                    ok == check_signals(wma, buy_mode, "buy")
                IN  IF raising # {}
                    THEN /\ children_called' = {BuyChildren[i] : i \in 1..first}
                         /\ composed' = outcome(StrategyRaises)
                         /\ UNCHANGED <<trailing_highest, signals, check>>
                    ELSE /\ signals' = wma
                         /\ check' = [mode |-> buy_mode, side |-> "buy",
                                      done |-> TRUE, value |-> ok]
                         /\ children_called' = Children(BuyChildren)
                         /\ composed' = outcome(
                               IF ok THEN OrderSignal("buy", NoQuantity)
                               ELSE NoSignal)
                         /\ UNCHANGED trailing_highest
        /\ position_peak' =
               IF position = NoPosition THEN 0
               ELSE IF position = composed.position
                    THEN Max(position_peak, price)
                    ELSE price
        /\ UNCHANGED <<composerFrame, sell_mode, buy_mode>>

ComposerNext ==
    \E price \in StrategyPrices,
       position \in {NoPosition} \cup StrategyPositions,
       wma \in [1..Len(BuyChildren) -> {NoSignal, StrategyRaises}] :
       ComposerRefresh(price, position, wma)

\* StrategyComposer(sell_mode, buy_mode)
\* StrategyComposer(sell_mode, buy_mode)
ComposerDrawn ==
    /\ sell_mode \in ComposerModes
    /\ buy_mode \in ComposerModes

ComposerInit ==
    /\ Constructed
    /\ api = "async"
    /\ is_dryrun = FALSE
    /\ ComposerDrawn
    /\ NothingChecked
    /\ DynamicDefault
    /\ LaterDefault

ComposerSpec == ComposerInit /\ [][ComposerNext]_vars

(* DynamicTargetStrategy.  EMA and ATR are fractions [num, den] with a      *)
(* positive denominator; the periods and balances of the runs are such that *)
(* every quotient the code takes is a finite decimal, so the fractions are  *)
(* the Decimal values the code holds.                                       *)

\* buy_factor "1.5", sell_factor "1.5", stop_loss_atr_factor "3.0", in
\* tenths, and balance_percent "80"
BuyFactorTenths == 15
SellFactorTenths == 15
StopLossAtrFactorTenths == 30
BalancePercent == 80

\* (ema_period, atr_period) of the runs
DynamicPeriods == {<<4, 2>>, <<1, 2>>}

\* Tickers as the strategy reads them: last, high and low.
DynamicTickers ==
    {[last |-> p, high |-> p + w, low |-> p - w] :
        p \in 1..MaxDynamicPrice, w \in {0, 1}}

\* The balance argument: None, nothing available, or 15 units.
DynamicBalances == {NoBalanceGiven, 0, 15}

DynamicPositions ==
    {NoPosition} \cup {LongPosition(1, q) : q \in AccountQuantities}

Abs(x) == IF x >= 0 THEN x ELSE -x

RECURSIVE Sum(_)
Sum(list) == IF list = <<>> THEN 0 ELSE Head(list) + Sum(Tail(list))

\* DynamicTargetStrategy.calculate_quantity; the division is exact for the
\* balances and prices of the runs
DynamicQuantity(balance, price) == (balance * BalancePercent) \div (100 * price)

RECURSIVE EmaOver(_, _, _)
\* `for price in prices[period:]: ema = ema + alpha * (price - ema)`, with
\* alpha = 2 / (period + 1)
EmaOver(ema, prices, period) ==
    IF prices = <<>> THEN ema
    ELSE EmaOver([num |-> (period - 1) * ema.num + 2 * Head(prices) * ema.den,
                  den |-> (period + 1) * ema.den],
                 Tail(prices), period)

\* Variant of calculate_ema: the plain average of the newest `period` prices.
calculate_ema_Sliding(prices, period, cached) ==
    LET n == Len(prices)
        from == IF n > period THEN n - period + 1 ELSE 1
        sma == [num |-> Sum(SubSeq(prices, from, n)), den |-> n - from + 1]
    IN  [value |-> sma, cache |-> sma]

\* calculate_ema(prices, period) with the cache it finds: the value it
\* returns and the cache it leaves.
calculate_ema(prices, period, cached) ==
    IF Len(prices) < period
    THEN [value |-> [num |-> Sum(prices), den |-> Len(prices)],
          cache |-> cached]
    ELSE IF cached # NoEma
    THEN LET ema == EmaOver(cached, <<prices[Len(prices)]>>, period)
         IN  [value |-> ema, cache |-> ema]
    ELSE LET sma == [num |-> Sum(SubSeq(prices, 1, period)), den |-> period]
             ema == EmaOver(sma, SubSeq(prices, period + 1, Len(prices)),
                            period)
         IN  [value |-> ema, cache |-> ema]

\* max(high - low, |high - previous.last|, |low - previous.last|)
calculate_true_range(current, previous) ==
    Max(current.high - current.low,
        Max(Abs(current.high - previous.last),
            Abs(current.low - previous.last)))

calculate_atr(tickers, period) ==
    LET n == Len(tickers)
        true_ranges == [i \in 1..(n - 1) |->
                           calculate_true_range(tickers[i + 1], tickers[i])]
    IN  IF n < 2
        THEN [num |-> tickers[n].high - tickers[n].low, den |-> 1]
        ELSE IF Len(true_ranges) < period
        THEN [num |-> Sum(true_ranges), den |-> Len(true_ranges)]
        ELSE [num |-> Sum(SubSeq(true_ranges, n - period, n - 1)),
              den |-> period]

\* price - (ema + atr * tenths / 10), times the positive denominators
OverBand(price, ema, atr, tenths) ==
    price * ema.den * atr.den * 10
        - (ema.num * atr.den * 10 + atr.num * tenths * ema.den)

\* DynamicTargetStrategy.on_market_refresh on the history and cache it
\* finds.  `assert balance` fails on None and on a zero balance.
DynamicTargetRefresh(history, cached, tick, balance, position) ==
    LET tickers == Append(history, tick)
        min_required == Max(ema_period, atr_period)
        prices == [i \in 1..Len(tickers) |-> tickers[i].last]
        e == calculate_ema(prices, ema_period, cached)
        ema == e.value
        atr == calculate_atr(tickers, atr_period)
        ended(value, at) ==
            [history |-> tickers, cache |-> e.cache, signal |-> value,
             at |-> at, ema |-> ema, atr |-> atr]
    IN  IF Len(tickers) < min_required
        THEN [history |-> tickers, cache |-> cached, signal |-> NoSignal,
              at |-> "short", ema |-> NoEma, atr |-> NoEma]
        ELSE IF position = NoPosition
        THEN IF OverBand(tick.last, ema, atr, -BuyFactorTenths) <= 0
             THEN IF balance = NoBalanceGiven \/ balance = 0
                  THEN ended(StrategyRaises, "assert")
                  ELSE ended(OrderSignal("buy",
                                 DynamicQuantity(balance, tick.last)),
                             "buy")
             ELSE ended(NoSignal, "end")
        ELSE IF OverBand(tick.last, ema, atr, SellFactorTenths) >= 0
        THEN ended(OrderSignal("sell", position.entry_order.quantity),
                   "target")
        ELSE IF OverBand(tick.last, ema, atr, -StopLossAtrFactorTenths) <= 0
        THEN ended(OrderSignal("sell", position.entry_order.quantity),
                   "stop")
        ELSE ended(NoSignal, "end")

dynamicFrame == <<engineVars, now, priceVars, targetVars, composerVars,
    backtestVars,
    randomVars,
    mintVars,
    trailVars,
    wmaVars,
    percentVars,
    variantVars>>

\* One tick given to a DynamicTarget strategy.
DynamicTargetTick(tick, balance, position) ==
    LET r == DynamicTargetRefresh(ticker_history, current_ema, tick,
                                  balance, position)
    IN  /\ Len(ticker_history) < MaxDynamicTicks
        /\ position \in PositionsAfter(dt_in.position)
        /\ ticker_history' = r.history
        /\ current_ema' = r.cache
        /\ dt_in' = [position |-> position, balance |-> balance]
        /\ dt_out' = [signal |-> r.signal, at |-> r.at, ema |-> r.ema,
                      atr |-> r.atr]
        /\ UNCHANGED <<dynamicFrame, ema_period, atr_period>>

DynamicNext ==
    \E t \in DynamicTickers, balance \in DynamicBalances,
       position \in DynamicPositions :
       \* the balance is read only without a position
       /\ position # NoPosition => balance = 15
       /\ DynamicTargetTick(t, balance, position)

\* DynamicTargetStrategy(ema_period, atr_period)
DynamicDrawn ==
    \E periods \in DynamicPeriods :
       ema_period = periods[1] /\ atr_period = periods[2]

DynamicInit ==
    /\ Constructed
    /\ api = "async"
    /\ is_dryrun = FALSE
    /\ ComposerDefault
    /\ NothingChecked
    /\ LaterDefault
    /\ DynamicDrawn

DynamicSpec == DynamicInit /\ [][DynamicNext]_vars

(* WeightedMovingAverageStrategy. *)

wmaFrame == <<engineVars, priceVars, targetVars, composerVars, dynamicVars,
              backtestVars, randomVars, mintVars, trailVars,
    percentVars,
    variantVars>>

WmaPrices == 1..MaxWmaPrice

\* The parameters of the runs: short_window 1, long_window 2, a period of
\* 2 seconds, both comparisons, with and without shift_past.
WmaParameters ==
    [short_window : {1}, long_window : {2}, buy_when_short_below : BOOLEAN,
     period : {2}, shift_past : {0, 1}]

WmaPositions == {NoPosition, LongPosition(1, 1)}

\* prices[:-shift]: the list without its `shift` newest entries
DropNewest(prices, shift) ==
    IF shift > 0
    THEN SubSeq(prices, 1, Max(0, Len(prices) - shift))
    ELSE prices

\* prices[-window:]: the `window` newest entries, or all of a shorter list
Newest(prices, window) ==
    SubSeq(prices, Max(1, Len(prices) - window + 1), Len(prices))

\* zip(prices[-window:], weights) of weighted_moving_average: the prices the
\* average is taken over; zip stops at the shorter list.
Weighted(prices, window, shift) == Newest(DropNewest(prices, shift), window)

RECURSIVE WeightedSum(_)
WeightedSum(prices) ==
    IF prices = <<>> THEN 0
    ELSE WeightedSum(SubSeq(prices, 1, Len(prices) - 1))
         + prices[Len(prices)] * Len(prices)

\* weighted_moving_average: sum(weighted_prices) / sum(weights), kept as a
\* fraction; the weights are 1..window whatever the number of prices.
weighted_moving_average(prices, window, shift) ==
    [num |-> WeightedSum(Weighted(prices, window, shift)),
     den |-> (window * (window + 1)) \div 2]

FractionLess(a, b) == a.num * b.den < b.num * a.den

\* Variant of set_parameters: a price inside the period is appended too.
set_parameters_Appending(history, last, price, at, seconds, history_limit) ==
    LET longer == Append(history, price)
    IN  [price_history |-> IF Len(longer) > history_limit
                           THEN Tail(longer) ELSE longer,
         last_price_time |-> IF last + seconds <= at THEN at ELSE last]

\* set_parameters: the window and the time of its last sample after the
\* price arrived at `at`.
set_parameters(history, last, price, at, seconds, history_limit) ==
    LET appended == last + seconds <= at
        longer == IF appended THEN Append(history, price) ELSE history
        sampled == IF appended THEN at ELSE last
        kept == IF appended /\ Len(longer) > history_limit
                THEN Tail(longer) ELSE longer
    IN  [price_history |-> IF sampled + seconds > at
                           THEN [kept EXCEPT ![Len(kept)] = price]
                           ELSE kept,
         last_price_time |-> sampled]

\* WeightedMovingAverageStrategy.on_market_refresh, `elapsed` seconds after
\* the previous call.
WmaRefresh(price, position, elapsed) ==
    LET at == now + elapsed
        set == set_parameters(price_history, last_price_time, price, at,
                              sample_period, long_window + shift_past)
        history == set.price_history
        short_wma == weighted_moving_average(history, short_window,
                                             shift_past)
        long_wma == weighted_moving_average(history, long_window, shift_past)
        compared == Len(history) >= long_window
    IN  /\ at <= MaxWmaTime
        /\ position \in WmaPositions
        /\ now' = at
        /\ price_history' = history
        /\ last_price_time' = set.last_price_time
        /\ wma_in' = [called |-> TRUE, price |-> price,
                      position |-> position, at |-> at,
                      history |-> price_history,
                      last_price_time |-> last_price_time]
        /\ wma_seen' =
               IF compared
               THEN [compared |-> TRUE,
                     short_over |-> Len(Weighted(history, short_window,
                                                 shift_past)),
                     long_over |-> Len(Weighted(history, long_window,
                                                shift_past))]
               ELSE NotCompared
        /\ wma_out' =
               IF ~compared THEN NoSignal
               ELSE IF position # NoPosition THEN NoSignal
               ELSE IF buy_when_short_below
                       /\ FractionLess(short_wma, long_wma)
                    THEN OrderSignal("buy", NoQuantity)
               ELSE IF ~buy_when_short_below
                       /\ FractionLess(long_wma, short_wma)
                    THEN OrderSignal("buy", NoQuantity)
               ELSE NoSignal
        /\ UNCHANGED <<wmaFrame, short_window, long_window,
                       buy_when_short_below, sample_period, shift_past>>

WmaNext ==
    \E price \in WmaPrices, position \in WmaPositions, elapsed \in 0..2 :
       WmaRefresh(price, position, elapsed)

\* WeightedMovingAverageStrategy(short_window, long_window,
\* buy_when_short_below, period, shift_past)
WmaDrawn ==
    \E parameters \in WmaParameters :
       /\ short_window = parameters.short_window
       /\ long_window = parameters.long_window
       /\ buy_when_short_below = parameters.buy_when_short_below
       /\ sample_period = parameters.period
       /\ shift_past = parameters.shift_past

WmaInit ==
    /\ Settled
    /\ LaterDefaultExcept("wma")
    /\ WmaDrawn

WmaSpec == WmaInit /\ [][WmaNext]_vars

(* TrailingStopLossStrategy on its own. *)

trailFrame == <<engineVars, now, priceVars, targetVars, composerVars,
                dynamicVars, backtestVars, randomVars, mintVars,
    wmaVars,
    percentVars,
    variantVars>>

\* stop_loss_percent of the runs: the default "1" and "30", in tenths
StopLossTenths == {10, 300}

\* One tick given to a TrailingStopLoss strategy.
TrailingStopTick(price, position) ==
    LET r == TrailingStopRefreshAt(stop_loss_tenths, stop_highest, price,
                                   position)
        continued == position # NoPosition /\ position = ts_in.position
    IN  /\ position \in PositionsAfter(ts_in.position)
        /\ stop_highest' = r.highest
        /\ ts_in' = [called |-> TRUE, price |-> price, position |-> position]
        /\ ts_out' = r.signal
        /\ ts_peak' = IF position = NoPosition THEN 0
                      ELSE IF continued THEN Max(ts_peak, price) ELSE price
        /\ UNCHANGED <<stop_loss_tenths, trailFrame>>

TrailingNext ==
    \E price \in StrategyPrices,
       position \in {NoPosition} \cup StrategyPositions :
       TrailingStopTick(price, position)

\* TrailingStopLossStrategy(stop_loss_percent)
TrailDrawn == stop_loss_tenths \in StopLossTenths

TrailingInit ==
    /\ Settled
    /\ LaterDefaultExcept("trail")
    /\ TrailDrawn

TrailingSpec == TrailingInit /\ [][TrailingNext]_vars

(* RandomStrategy. *)

randomFrame == <<engineVars, now, priceVars, targetVars, composerVars,
                 dynamicVars, backtestVars,
    mintVars,
    trailVars,
    wmaVars,
    percentVars,
    variantVars>>

\* Chances a strategy is built with, and what random.randint(1, 100) draws.
Chances == {0, 50, 100}
RandomDraws == {1, 50, 51, 100}

\* Variant of RandomRefresh: the sell draw is made whether or not a position
\* is open.
RandomRefresh_SellFirst(draw, position) ==
    IF draw <= sell_chance
    THEN [side |-> "sell", quantity |-> 1]
    ELSE IF position = NoPosition /\ draw <= buy_chance
         THEN OrderSignal("buy", NoQuantity)
         ELSE NoSignal

\* RandomStrategy.on_market_refresh with the number it draws.  (price_history
\* is written and never read.)
RandomRefresh(draw, position) ==
    IF position = NoPosition
    THEN IF draw <= buy_chance
         THEN OrderSignal("buy", NoQuantity)
         ELSE NoSignal
    ELSE IF draw <= sell_chance
         THEN OrderSignal("sell", position.entry_order.quantity)
         ELSE NoSignal

\* One tick given to a Random strategy.
RandomTick(draw, position) ==
    /\ position \in PositionsAfter(rn_in.position)
    /\ rn_in' = [called |-> TRUE, position |-> position, draw |-> draw]
    /\ rn_out' = RandomRefresh(draw, position)
    /\ UNCHANGED <<randomFrame, buy_chance, sell_chance>>

RandomNext ==
    \E draw \in RandomDraws, position \in {NoPosition} \cup StrategyPositions :
       RandomTick(draw, position)

\* RandomStrategy(sell_chance, buy_chance)
RandomDrawn ==
    /\ buy_chance \in Chances
    /\ sell_chance \in Chances

RandomInit ==
    /\ Settled
    /\ LaterDefaultExcept("random")
    /\ RandomDrawn

RandomSpec == RandomInit /\ [][RandomNext]_vars

(* Mint.ui_to_raw and Mint.raw_to_ui.  A Decimal is [coef, scale], worth    *)
(* coef / 10^scale; the amounts of the runs have few digits, so that no     *)
(* product or quotient reaches the 28 digits of the Decimal context.        *)

mintFrame == <<engineVars, now, priceVars, targetVars, composerVars,
               dynamicVars, backtestVars, randomVars,
    trailVars,
    wmaVars,
    percentVars,
    variantVars>>

\* decimals of the mints SOLANA_MINTS registers
MintDecimals == {5, 6, 8, 9}

\* Amounts with fewer, as many, or more fractional digits than the mint has.
UiAmounts(decimals) ==
    [coef : 0..MaxCoefficient, scale : (decimals - 1)..(decimals + 2)]

RECURSIVE Pow10(_)
Pow10(n) == IF n = 0 THEN 1 ELSE 10 * Pow10(n - 1)

\* Variant of ui_to_raw: rounds to the nearest raw unit.
ui_to_raw_Rounding(ui, decimals) ==
    IF ui.scale <= decimals
    THEN ui.coef * Pow10(decimals - ui.scale)
    ELSE (ui.coef + Pow10(ui.scale - decimals) \div 2)
             \div Pow10(ui.scale - decimals)

\* int(Decimal(ui_amount) * Decimal(10) ** decimals): int() drops the
\* fraction
ui_to_raw(ui, decimals) ==
    IF ui.scale <= decimals
    THEN ui.coef * Pow10(decimals - ui.scale)
    ELSE ui.coef \div Pow10(ui.scale - decimals)

\* Decimal(raw_amount) / Decimal(10) ** decimals
raw_to_ui(raw, decimals) == [coef |-> raw, scale |-> decimals]

\* raw_to_ui(ui_to_raw(x)) for the amount and mint of the run.
ConvertAndBack ==
    /\ ~converted.done
    /\ LET raw == ui_to_raw(ui_amount, mint_decimals)
       IN  converted' = [done |-> TRUE, raw |-> raw,
                         ui |-> raw_to_ui(raw, mint_decimals)]
    /\ UNCHANGED <<mintFrame, mint_decimals, ui_amount>>

MintInit ==
    /\ Settled
    /\ LaterDefaultExcept("mint")
    /\ mint_decimals \in MintDecimals
    /\ ui_amount \in UiAmounts(mint_decimals)
    /\ converted = NotConverted

MintSpec == MintInit /\ [][ConvertAndBack]_vars

(* BacktestingBot.run over historical candles.  The account it drives     *)
(* answers place_order like AsyncAccount and keeps every position it opened *)
(* in position_history, the open one last.                                  *)

backtestFrame == <<engineVars, now, priceVars, targetVars, composerVars,
                   dynamicVars,
    randomVars,
    mintVars,
    trailVars,
    wmaVars,
    percentVars,
    variantVars>>

\* candles.timestamp[index]: historical, before the run's wall clock
CandleTime(index) == now - (MaxCandles + 1) + index

OrdersPlaced(history) ==
    Len(history) + Cardinality({i \in 1..Len(history) :
                                   history[i].exit_order # NoOrder})

HistoryOpen(history) ==
    history # <<>> /\ history[Len(history)].exit_order = NoOrder

\* account.place_order(price, side, quantity) on the history: the history
\* it leaves, and whether it raised because the account refuses the side.
HistoryPlaceOrder(history, side, price, quantity) ==
    LET order == Order(OrdersPlaced(history) + 1, side, price, quantity, now)
        refused == [raised |-> TRUE, history |-> history]
    IN  IF side = "buy"
        THEN IF HistoryOpen(history) THEN refused
             ELSE [raised |-> FALSE,
                   history |-> Append(history,
                                      [type |-> "long", entry_order |-> order,
                                       exit_order |-> NoOrder])]
        ELSE IF ~HistoryOpen(history) THEN refused
             ELSE [raised |-> FALSE,
                   history |-> [history EXCEPT
                                   ![Len(history)].exit_order = order]]

\* self.process_market_data(current_ticker) inside the try of run: an
\* exception of the strategy or of the account ends the iteration.
BacktestProcess(outcome, price) ==
    /\ bt.pc = "process"
    /\ bt.index < MaxCandles
    /\ LET placed ==
              IF outcome = NoSignal
              THEN [raised |-> FALSE, history |-> position_history]
              ELSE IF outcome = StrategyRaises
              THEN [raised |-> TRUE, history |-> position_history]
              ELSE HistoryPlaceOrder(position_history, outcome.side, price,
                                     outcome.quantity)
       IN  /\ bt' = IF placed.raised
                    THEN [index |-> bt.index + 1, pc |-> "process"]
                    ELSE [bt EXCEPT !.pc = "stamp"]
           /\ position_history' = placed.history
    /\ UNCHANGED <<backtestFrame, last_order_id>>

\* `if self.account.position_history: ...`: the newest order is given the
\* candle's timestamp, once.
BacktestStamp ==
    /\ bt.pc = "stamp"
    /\ bt' = [index |-> bt.index + 1, pc |-> "process"]
    /\ IF position_history = <<>>
       THEN UNCHANGED <<position_history, last_order_id>>
       ELSE LET n == Len(position_history)
                last_pos == position_history[n]
                closed_now == last_pos.exit_order # NoOrder
                last_order == IF closed_now THEN last_pos.exit_order
                              ELSE last_pos.entry_order
                stamped == [last_order EXCEPT
                               !.timestamp = CandleTime(bt.index + 1)]
            IN  IF last_order.order_id # last_order_id
                THEN /\ last_order_id' = last_order.order_id
                     /\ position_history' =
                           IF closed_now
                           THEN [position_history EXCEPT
                                    ![n].exit_order = stamped]
                           ELSE [position_history EXCEPT
                                    ![n].entry_order = stamped]
                ELSE UNCHANGED <<position_history, last_order_id>>
    /\ UNCHANGED backtestFrame

BacktestNext ==
    \/ \E outcome \in {NoSignal, StrategyRaises} \cup
                        [side : Sides, quantity : AccountQuantities],
          price \in Prices :
          BacktestProcess(outcome, price)
    \/ BacktestStamp

BacktestInit == Init /\ api = "sync" /\ is_dryrun = FALSE

BacktestSpec == BacktestInit /\ [][BacktestNext]_vars

(* A run of main with one of the strategies: every strategy class and the *)
(* composer, each driven call by call with the parameters of its own runs. *)

percentFrame == <<engineVars, now, priceVars, targetVars, composerVars,
                  dynamicVars, backtestVars, randomVars, mintVars, trailVars,
                  wmaVars, variantVars>>

\* One tick given to a TargetPercent strategy.
TargetPercentTick(price, position) ==
    /\ position \in PositionsAfter(tp_in.position)
    /\ tp_in' = [called |-> TRUE, price |-> price, position |-> position]
    /\ tp_out' = TargetPercentRefresh(price, position)
    /\ UNCHANGED percentFrame

TargetPercentNext ==
    \E price \in StrategyPrices,
       position \in {NoPosition} \cup StrategyPositions :
       TargetPercentTick(price, position)

Strategies ==
    {"random", "target_value", "dynamic_target", "composer",
     "weighted_moving_average", "trailing_stop_loss", "target_percent"}

StrategiesInit ==
    /\ Constructed
    /\ api = "async"
    /\ is_dryrun = FALSE
    /\ NothingChecked
    /\ MintDefault
    /\ strategy \in Strategies
    /\ IF strategy = "composer" THEN ComposerDrawn ELSE ComposerDefault
    /\ IF strategy = "dynamic_target" THEN DynamicDrawn ELSE DynamicDefault
    /\ IF strategy = "random" THEN RandomDrawn ELSE RandomDefault
    /\ IF strategy = "trailing_stop_loss" THEN TrailDrawn ELSE TrailDefault
    /\ IF strategy = "weighted_moving_average" THEN WmaDrawn ELSE WmaDefault

StrategiesNext ==
    \/ strategy = "random" /\ RandomNext
    \/ strategy = "target_value" /\ TargetNext
    \/ strategy = "dynamic_target" /\ DynamicNext
    \/ strategy = "composer" /\ ComposerNext
    \/ strategy = "weighted_moving_average" /\ WmaNext
    \/ strategy = "trailing_stop_loss" /\ TrailingNext
    \/ strategy = "target_percent" /\ TargetPercentNext

StrategiesSpec == StrategiesInit /\ [][StrategiesNext]_vars

(* ------------------------------ claims -------------------------------- *)

RealMode == ~is_dryrun
PipelineSteps == <<"quote", "build", "sign", "simulate", "send", "confirm">>
IsPrefix(s, t) == Len(s) <= Len(t) /\ s = SubSeq(t, 1, Len(s))
IsRpcStep(step) == step \in {"sign", "simulate", "send", "confirm"}
StepSet == {steps[i] : i \in 1..Len(steps)}

\* C1: after any sequence of place_order calls, current_position is None
\* exactly when as many sells as buys have succeeded; otherwise it is an open
\* Long position whose exit_order is None.
C1_PositionIffCounts ==
    /\ (current_position = NoPosition) <=> (sells_ok = buys_ok)
    /\ current_position # NoPosition =>
          /\ current_position.type = "long"
          /\ current_position.exit_order = NoOrder
          /\ buys_ok = sells_ok + 1

\* A buy and then a sell have both succeeded and the position is closed.
C1_Witness ==
    /\ buys_ok = 1 /\ sells_ok = 1
    /\ current_position = NoPosition
    /\ result = "ok"

\* C2: a Buy while a position is open, and a Sell while none is, is rejected
\* whatever the balance, before the swap pipeline is entered: no quote is
\* asked, nothing is sent, the position stays.
C2_IllegalRejectedBeforeSwap ==
    call.illegal =>
        /\ result = "rejected"
        /\ pc = "idle"
        /\ slippages = <<>> /\ steps = <<>> /\ raw_sends = 0
        /\ current_position = pre.position

\* A Buy was rejected for the open position although the cached input
\* balance is above the minimum.
C2_Witness ==
    /\ call.illegal /\ call.side = "buy"
    /\ result = "rejected"
    /\ balances # NoBalances
    /\ balances.input >= MinBuyBalance

\* C3: when the pipeline fails (after its retries) the position, the total
\* PnL and position_last_update are what they were before the call, and the
\* entry order of a position carries a signature that the chain reported
\* Confirmed or Finalized, or a dry-run stand-in.
C3_FailureLeavesAccount ==
    /\ (pc # "idle" \/ result = "failed") =>
          /\ current_position = pre.position
          /\ total_pnl = pre.pnl
          /\ position_last_update = pre.plu
    /\ current_position # NoPosition =>
          \/ current_position.entry_order.order_id \in confirmed_sigs
          \/ /\ is_dryrun
             /\ \E i \in 1..Len(fabricated) :
                   fabricated[i] = current_position.entry_order.order_id

\* A sell of an open position failed after three attempts.
C3_Witness ==
    /\ result = "failed"
    /\ Len(slippages) = 3
    /\ call.side = "sell"
    /\ current_position # NoPosition

\* C4 (as claimed): one place_order never has two submitted transactions
\* that could both land: a transaction whose confirmation ended without a
\* verdict is not followed by another send.
C4_NoSecondLiveTransaction ==
    \A s \in unsettled : \A t \in sent : t <= s

\* C5: the pipeline makes at most three attempts, with slippage 50, 50, 75
\* bps in that order; it gives up only after the third attempt failed, so a
\* backend that fails N times then succeeds yields success iff N < 3.
C5_RetryAndSlippage ==
    /\ Len(slippages) <= 3
    /\ slippages = SubSeq(<<50, 50, 75>>, 1, Len(slippages))
    /\ result = "failed" => Len(slippages) = 3
    /\ pc \notin {"idle", "quote"} => Len(slippages) = attempt + 1
    /\ pc = "quote" => Len(slippages) = attempt

\* Two attempts failed and the third succeeded.
C5_Witness ==
    /\ result = "ok"
    /\ slippages = <<50, 50, 75>>

\* C6: the steps of an attempt are a prefix of quote, build, sign, simulate,
\* send, confirm (in order, each at most once), and the RPC calls of a swap
\* that succeeded are sign, simulate, send, confirm.
C6_StepOrder ==
    /\ IsPrefix(steps, PipelineSteps)
    /\ (result = "ok" /\ ~(api = "sync" /\ is_dryrun)) =>
          SelectSeq(steps, IsRpcStep) = <<"sign", "simulate", "send", "confirm">>

\* A buy and then a sell both went through the whole pipeline.
C6_Witness ==
    /\ RealMode
    /\ buys_ok = 1 /\ sells_ok = 1
    /\ result = "ok"
    /\ steps = PipelineSteps

\* C7: an empty route plan ends the attempt at the quote, and a simulation
\* that reports an error ends it before anything is sent.
C7_FailedStepStopsAttempt ==
    /\ observed.route = "empty" => steps = <<"quote">>
    /\ observed.sim = "InstructionError" =>
          /\ "send" \notin StepSet
          /\ steps = <<"quote", "build", "sign", "simulate">>
          /\ raw_sends = 0 \/ attempt > 0

\* The simulation of the last attempt reported an error and the order failed
\* with nothing sent in this call.
C7_Witness ==
    /\ observed.sim = "InstructionError"
    /\ result = "failed"
    /\ raw_sends = 0

\* C8 (as claimed): confirmation reports success only on Confirmed or
\* Finalized, and never when the reported status carries an error.
C8_ErrorNeverConfirms ==
    (RealMode /\ confirm_end = "success") =>
        /\ last_status # NoStatus
        /\ last_status.confirmation_status \in {"confirmed", "finalized"}
        /\ last_status.err = NoErr

\* The confirmation loop runs in the thread that placed the order: while it
\* waits, its next poll is always taken.
FairSpec == Spec /\ WF_vars(\E status \in Statuses : ConfirmPoll(status))

IsPending(status) ==
    \/ status = NoStatus
    \/ /\ status.confirmation_status = "processed"
       /\ status.err = NoErr

C9_LoopShape ==
    /\ confirm_end \in {"none", "success", "execution_failed", "timeout"}
    /\ pc = "confirm" => confirm_end = "none"
    /\ (RealMode /\ pc = "confirm") =>
          /\ status_queries >= polls
          /\ now - conf_start = polls * Seconds(PollInterval)
          /\ now - conf_start <= Seconds(ConfirmTimeout) + Seconds(PollInterval)
          /\ polls > 0 => IsPending(last_status)
    /\ (RealMode /\ confirm_end = "success") =>
          /\ last_status # NoStatus
          /\ last_status.confirmation_status \in {"confirmed", "finalized"}
    /\ (RealMode /\ confirm_end = "execution_failed") =>
          /\ last_status # NoStatus
          /\ last_status.err # NoErr
    /\ (RealMode /\ confirm_end = "timeout") =>
          /\ IsPending(last_status)
          /\ now - conf_start > Seconds(ConfirmTimeout)
          /\ now - conf_start = (polls - 1) * Seconds(PollInterval)

C10_DryRun ==
    is_dryrun =>
        /\ raw_sends = 0
        /\ status_queries = 0
        /\ sent = {}
        /\ now < Seconds(1)
        /\ \A i, j \in 1..Len(fabricated) :
              i # j => fabricated[i] # fabricated[j]
        /\ pc = "idle" => Len(fabricated) = buys_ok + sells_ok
        /\ pc = "confirm" =>
              /\ polls = 0
              /\ cur_sig = fabricated[Len(fabricated)]
              /\ Len(fabricated) = buys_ok + sells_ok + 1
        /\ current_position # NoPosition =>
              \E i \in 1..Len(fabricated) :
                  fabricated[i] = current_position.entry_order.order_id

\* Two dry-run swaps, a buy and a sell, each got a signature.
C10_Witness ==
    /\ is_dryrun
    /\ buys_ok = 1 /\ sells_ok = 1
    /\ Len(fabricated) = 2

\* C11 (as claimed): in dry-run every step before the submit still runs for
\* each attempt: a dry-run swap that succeeded went through quote, build,
\* sign and simulate, and an attempt past the signature has simulated.
C11_DryRunRunsUpstreamSteps ==
    (is_dryrun /\ (result = "ok" \/ pc \in {"send", "confirm"})) =>
        /\ Len(steps) >= 4
        /\ SubSeq(steps, 1, 4) = <<"quote", "build", "sign", "simulate">>

RECURSIVE SumOfClosed(_)
SumOfClosed(positions) ==
    IF positions = <<>> THEN 0
    ELSE (Head(positions).exit_order.price - Head(positions).entry_order.price)
            * Head(positions).entry_order.quantity
         + SumOfClosed(Tail(positions))

C12_Ledger ==
    /\ total_pnl = SumOfClosed(closed_positions)
    /\ Len(closed_positions) = sells_ok

C12_ChangesInSellOnly ==
    [][total_pnl' # total_pnl =>
          /\ last_op'.op = "place_order"
          /\ last_op'.side = "sell"
          /\ last_op'.outcome = "ok"
          /\ sells_ok' = sells_ok + 1]_vars

\* C12: the total realized PnL is the sum over the closed positions of
\* (exit price - entry price) * entry quantity, and it changes only in a
\* successful sell.
C12_PnlIsSumOfClosed ==
    /\ []C12_Ledger
    /\ C12_ChangesInSellOnly

\* Two positions were closed with different gains: (2-1)*2 and (2-1)*1.
C12_Witness ==
    /\ Len(closed_positions) = 2
    /\ closed_positions[1].entry_order.quantity # closed_positions[2].entry_order.quantity
    /\ total_pnl = 3

\* C13: provider.swap is called for a Buy only when the input balance the
\* gate read is at least 0.01 UI and for a Sell only when the output balance
\* is at least 0.00001 UI; below that the order is rejected with no swap and
\* the position is left as it was.
C13_BalanceThresholds ==
    LET minimum == IF last_op.side = "buy" THEN MinBuyBalance ELSE MinSellBalance
    IN  last_op.op = "place_order" =>
          /\ last_op.swapped =>
                /\ last_op.read /\ ~last_op.raised
                /\ last_op.balance >= minimum
          /\ (last_op.read /\ ~last_op.raised /\ last_op.balance < minimum) =>
                /\ ~last_op.swapped
                /\ last_op.outcome = "rejected"
                /\ current_position = pre.position
                /\ total_pnl = pre.pnl

\* A Sell of an open position was rejected for an output balance just below
\* the minimum.
C13_Witness ==
    /\ last_op.op = "place_order"
    /\ last_op.side = "sell"
    /\ last_op.balance = MinSellBalance - 1
    /\ last_op.outcome = "rejected"
    /\ current_position # NoPosition

\* C14: the first get_balance after a successful buy or sell calls the
\* backend; an order that failed or was rejected leaves the position
\* timestamp alone, and a get_balance after it still answers from a snapshot
\* that is there and not too old.
C14_RefetchAfterOrder ==
    /\ (last_op.read /\ last_op.after = "ok") => last_op.fetched
    /\ unread_order = "ok" => position_last_update > balances_last_update
    /\ (last_op.op = "place_order" /\ last_op.outcome # "ok") =>
          position_last_update = pre.plu
    /\ (last_op.read /\ last_op.after \in {"failed", "rejected"}
          /\ last_op.snapshot /\ last_op.fresh) => ~last_op.fetched

\* A get_balance right after a successful order called the backend although
\* the snapshot was there and not old.
C14_Witness ==
    /\ last_op.op = "get_balance"
    /\ last_op.after = "ok"
    /\ last_op.fetched /\ ~last_op.raised
    /\ last_op.snapshot /\ last_op.fresh

\* C15: get_balance calls the backend only when the cache is invalid: with a
\* snapshot at most 3 minutes old and no position change since it was
\* fetched there is no backend call, so the gate of a place_order that
\* directly follows a get_balance shares its fetch.
C15_CacheAnswers ==
    /\ last_op.fetched =>
          ~(last_op.snapshot /\ last_op.fresh /\ last_op.position_unchanged)
    /\ (last_op.op = "place_order" /\ last_op.read /\ last_op.prev_read) =>
          ~last_op.fetched

\* The gate of an order read the balance from the snapshot the preceding
\* get_balance had fetched, and the swap went ahead.
C15_Witness ==
    /\ last_op.op = "place_order"
    /\ last_op.prev_read
    /\ last_op.read /\ ~last_op.fetched
    /\ last_op.swapped
    /\ ops = 2

Completed(done) ==
    IF done # <<>> /\ done[Len(done)] \in {"error", "closed"}
    THEN SubSeq(done, 1, Len(done) - 1) ELSE done

\* C17: an iteration goes price, strategy, optional order (confirmation
\* included), observation, in that order; place_order runs only inside the
\* iteration that called it, at most once per iteration, and no price fetch
\* starts while a place_order is in flight.
C17_IterationOrder ==
    /\ \/ IsPrefix(Completed(events), <<"price", "strategy", "order", "observe">>)
       \/ IsPrefix(Completed(events), <<"price", "strategy", "observe">>)
    /\ calls <= base.calls + 1
    /\ pc # "idle" =>
          /\ lpc \in {"place", "stopped"}
          /\ calls = base.calls + 1
          /\ events = <<"price", "strategy">>
    /\ (Running /\ lpc # "place") => pc = "idle"
    /\ (\E i \in 1..Len(events) : events[i] = "order") =>
          /\ pc = "idle" /\ result = "ok"
          /\ steps # <<>> /\ steps[Len(steps)] = "confirm"
          /\ confirm_end = "success"

\* The second iteration sold what the first bought, each with a confirmed
\* order, and observed the position afterwards.
C17_Witness ==
    /\ RealMode
    /\ ticks = 2
    /\ buys_ok = 1 /\ sells_ok = 1
    /\ events = <<"price", "strategy", "order", "observe">>

C18_GateHolds ==
    pc # "idle" =>
        /\ current_position = pre.position
        /\ call.side = "buy" => current_position = NoPosition
        /\ call.side = "sell" =>
              /\ current_position # NoPosition
              /\ current_position.type = "long"
              /\ current_position.exit_order = NoOrder

C18_OnlyOwnUpdate ==
    [][current_position' # current_position =>
          /\ pc # "idle" /\ pc' = "idle"
          /\ result' = "ok"
          /\ calls' = calls]_vars

\* C18: from a place_order's gate to its position update nothing else
\* changes the position, so what the gate checked holds while the swap runs
\* and when the position is written.
C18_GateToUpdate ==
    /\ []C18_GateHolds
    /\ C18_OnlyOwnUpdate

\* In the loop's second iteration a sell is polling for its confirmation.
C18_Witness ==
    /\ ticks = 2
    /\ call.side = "sell"
    /\ pc = "confirm"
    /\ polls > 0

\* C19 (as claimed): when the loop has ended on an interrupt no swap is left
\* in progress: the swap that was running has completed or failed.
C19_InterruptedSwapCompletes ==
    loop_end = "interrupt" =>
        /\ pc = "idle"
        /\ \A sig \in sent : sig \in confirmed_sigs \/ sig # cur_sig

\* C20 (as claimed): after a successful order the next iteration starts only
\* once the settle wait has passed.
C20_SettleWaitAfterOrder == ~hasty

\* C24: when the three attempts of a swap have failed, the caller gets the
\* exception of the third attempt itself; the exceptions of the first two
\* attempts were logged as warnings and none of them is raised, and nothing
\* is raised while an attempt is still to come.
C24_LastErrorSurfaces ==
    /\ pc = "idle" /\ result = "failed" =>
          /\ surfaced = Raised(MaxAttempts - 1, steps)
          /\ warnings = 0..(MaxAttempts - 2)
          /\ surfaced.attempt \notin warnings
    /\ result # "failed" => surfaced = NoError
    /\ pc # "idle" => warnings = 0..(attempt - 1)

\* A swap failed three times, at three different steps on the way: the quote
\* of the first attempt or the send of the second, and the confirmation of
\* the third, whose exception is the one raised.
C24_Witness ==
    /\ pc = "idle"
    /\ result = "failed"
    /\ surfaced # NoError
    /\ surfaced.step = "confirm"
    /\ confirm_end = "execution_failed"
    /\ Len(slippages) = MaxAttempts

\* What C22 says of every state of a get_price call: nothing is raised to the
\* caller, a connection opened after a failure was opened at least the
\* back-off later, and a price returned after a failure comes from that new
\* connection, which subscribed to the mint the caller asked for.
C22_ReconnectShape ==
    /\ price_error = NoError
    /\ gp.failures > 0 /\ gp.pc \in {"subscribe", "recv"} =>
          gp.connected_at - gp.failed_at >= Seconds(ReconnectWait)
    /\ gp.failures > 0 /\ delivered # NoDelivery =>
          /\ gp.connected_at - gp.failed_at >= Seconds(ReconnectWait)
          /\ delivered.connection = Len(subscriptions)
          /\ delivered.mint = gp.requested

C23_OtherErrorsPropagate ==
    gp.cause = "malformed" =>
        /\ gp.pc = "idle"
        /\ price_error = [cause |-> "malformed"]

\* The value is an order signal of the given side.
IsSignal(value, side) ==
    /\ value # NoSignal
    /\ value # StrategyRaises
    /\ value.side = side

\* tv_in.spread is within max_spread (a ticker without a spread passes).
SpreadAllows(spread) ==
    \/ spread \in {NoAttribute, NoSpread}
    \/ spread.value <= MaxSpreadTenths

\* C27 (as claimed): on a tick of an open position TargetValue sells the entry
\* quantity exactly when the profit target was met on this or an earlier tick
\* of the position and the price has dropped stop_loss_percent from the top
\* price seen since then; the latch stays set while the position is open.
C27_SellIffLatchedAndDropped ==
    tv_in.calls > 0 /\ tv_in.position # NoPosition =>
        /\ tv_out.signal =
              [side |-> "sell",
               quantity |-> tv_in.position.entry_order.quantity]
           <=> /\ tv_seen.met
               /\ DropAtLeast(tv_seen.top, tv_in.price, StopLossPercent)
        /\ tv_seen.met => target_profit_reached

\* C28 (as claimed): on a tick without a position TargetValue emits Buy
\* exactly when the buy price is at or under the target, the spread is within
\* max_spread and the buy price is not under that of the previous tick; on
\* every other such tick it emits nothing.
C28_BuyExactlyWhen ==
    tv_in.calls > 0 /\ tv_in.position = NoPosition =>
        IF /\ tv_in.price <= TargetBuyPrice
           /\ SpreadAllows(tv_in.spread)
           /\ tv_in.previous # NoLastPrice
           /\ tv_in.price >= tv_in.previous
        THEN IsSignal(tv_out.signal, "buy")
        ELSE tv_out.signal = NoSignal

\* C29 (as claimed): after every on_market_refresh of TargetValue, whatever
\* it returned, last_price is the buy price of that tick.
C29_LastPriceIsThisTick ==
    tv_in.calls > 0 => last_price = tv_in.price


\* C25: for every list of child results and every side, check_signals with
\* mode "all" is true exactly when every entry is a signal of that side,
\* whatever its quantity, and with mode "any" exactly when at least one
\* entry is.
C25_CheckSignalsAllAny ==
    check.done =>
        LET matching == {i \in 1..Len(signals) :
                            IsSignal(signals[i], check.side)}
        IN  /\ check.mode = "all" =>
                (check.value <=> Cardinality(matching) = Len(signals))
            /\ check.mode = "any" =>
                (check.value <=> Cardinality(matching) >= 1)

\* A list mixing both sides and None has been checked in mode "any" and
\* found to hold a signal of the side asked for.
C25_Witness ==
    /\ check.done
    /\ check.mode = "any"
    /\ check.value
    /\ Len(signals) = MaxSignals
    /\ \E i, j, k \in 1..Len(signals) :
          /\ signals[i] = NoSignal
          /\ IsSignal(signals[j], "buy")
          /\ IsSignal(signals[k], "sell")

\* C26 (as claimed): every child of both lists has been called by each
\* on_market_refresh of the composer, with or without a position.
C26_EveryChildRefreshed ==
    composed.called =>
        children_called = Children(BuyChildren) \cup Children(SellChildren)


\* C21 (as claimed): when the strategy of an iteration ends with a signal
\* that carries no quantity, the loop goes on to place an order, with a
\* quantity it computed itself.
C21_UnsizedSignalIsPlaced ==
    [][\A side \in Sides :
          LoopStrategy([side |-> side, quantity |-> NoQuantity]) =>
              /\ lpc' = "place"
              /\ signal'.quantity # NoQuantity]_vars


\* The last DynamicTarget call came with at least max(ema_period,
\* atr_period) tickers in the history, its own included.
DynamicReady ==
    Len(ticker_history) >= Max(ema_period, atr_period)

\* C30 (as claimed): DynamicTarget returns no signal while fewer than
\* max(ema_period, atr_period) tickers have been seen; afterwards it emits
\* Buy iff there is no position and last <= EMA - ATR * buy_factor, and
\* Sell of entry.quantity iff a position is open and last >= EMA + ATR *
\* sell_factor or last <= EMA - ATR * stop_loss_atr_factor.
C30_DynamicTargetSignals ==
    Len(ticker_history) > 0 =>
        LET last == ticker_history[Len(ticker_history)].last
            held == dt_in.position
        IN  IF ~DynamicReady
            THEN dt_out.signal = NoSignal
            ELSE /\ IsSignal(dt_out.signal, "buy") <=>
                       /\ held = NoPosition
                       /\ OverBand(last, dt_out.ema, dt_out.atr,
                                   -BuyFactorTenths) <= 0
                 /\ IsSignal(dt_out.signal, "sell") <=>
                       /\ held # NoPosition
                       /\ \/ OverBand(last, dt_out.ema, dt_out.atr,
                                      SellFactorTenths) >= 0
                          \/ OverBand(last, dt_out.ema, dt_out.atr,
                                      -StopLossAtrFactorTenths) <= 0
                 /\ IsSignal(dt_out.signal, "sell") =>
                       dt_out.signal.quantity = held.entry_order.quantity


RECURSIVE ReferenceEma(_, _, _)
\* The EMA of the first n prices, n >= period: the average of the first
\* `period` prices for n = period, and one smoothing step per later price.
ReferenceEma(prices, period, n) ==
    IF n <= period
    THEN [num |-> Sum(SubSeq(prices, 1, period)), den |-> period]
    ELSE LET before == ReferenceEma(prices, period, n - 1)
         IN  [num |-> before.num * (period + 1) - 2 * before.num
                         + 2 * prices[n] * before.den,
              den |-> before.den * (period + 1)]

SameFraction(a, b) == a.num * b.den = b.num * a.den

HistoryPrices == [i \in 1..Len(ticker_history) |-> ticker_history[i].last]

\* C40: after any number of ticks, the EMA DynamicTarget uses is the
\* reference EMA of its whole price history: the SMA of the first `period`
\* prices as seed, then ema + alpha * (price - ema) with alpha = 2 / (period
\* + 1) once for each later price.
C40_EmaIsReference ==
    DynamicReady =>
        SameFraction(dt_out.ema,
                     ReferenceEma(HistoryPrices, ema_period,
                                  Len(ticker_history)))

\* The strategy has answered from its cached EMA, on a history whose prices
\* moved after the seed, and the EMA is not the average of the newest prices.
C40_Witness ==
    /\ DynamicReady
    /\ Len(ticker_history) = MaxDynamicTicks
    /\ ema_period = 4
    /\ HistoryPrices[Len(ticker_history)] # HistoryPrices[1]
    /\ ~SameFraction(dt_out.ema,
                     calculate_ema_Sliding(HistoryPrices, ema_period,
                                           NoEma).value)


\* C39 (as claimed): once a position is created its entry_order is never
\* modified by a later operation, and its exit_order, once set, is never
\* changed again.
C39_OrdersOfAPositionFrozen ==
    [][\A i \in 1..Len(position_history) :
          /\ position_history'[i].entry_order =
                 position_history[i].entry_order
          /\ position_history[i].exit_order # NoOrder =>
                 position_history'[i].exit_order =
                    position_history[i].exit_order]_vars


\* C34 (as claimed): Random with buy_chance = 100 emits Buy on every tick
\* without a position and with sell_chance = 100 emits Sell of
\* entry.quantity on every tick with an open position; with a chance of 0 it
\* never emits that side.
C34_RandomChances ==
    rn_in.called =>
        /\ (rn_in.position = NoPosition /\ buy_chance = 100) =>
               IsSignal(rn_out, "buy")
        /\ (rn_in.position # NoPosition /\ sell_chance = 100) =>
               rn_out = [side |-> "sell",
                         quantity |-> rn_in.position.entry_order.quantity]
        /\ buy_chance = 0 => ~IsSignal(rn_out, "buy")
        /\ sell_chance = 0 => ~IsSignal(rn_out, "sell")


\* a - b for two decimals, in units of the finer of their two scales
DecimalDifference(a, b) ==
    IF a.scale >= b.scale
    THEN a.coef - b.coef * Pow10(a.scale - b.scale)
    ELSE a.coef * Pow10(b.scale - a.scale) - b.coef

\* C35: for every registered mint and every non-negative UI amount x with at
\* most `decimals` fractional digits, raw_to_ui(ui_to_raw(x)) = x; with more
\* fractional digits ui_to_raw truncates toward zero, so
\* raw_to_ui(ui_to_raw(x)) <= x, less than one raw unit below it.
C35_MintRoundTrip ==
    converted.done =>
        LET lost == DecimalDifference(ui_amount, converted.ui)
        IN  IF ui_amount.scale <= mint_decimals
            THEN lost = 0
            ELSE /\ lost >= 0
                 /\ lost < Pow10(ui_amount.scale - mint_decimals)

\* An amount with more digits than the mint has was converted and came back
\* smaller.
C35_Witness ==
    /\ converted.done
    /\ ui_amount.scale > mint_decimals
    /\ converted.raw > 0
    /\ DecimalDifference(ui_amount, converted.ui) > 0


\* C33 (as claimed): TrailingStopLoss, while a position is open, keeps
\* highest = max of the buy prices seen and emits Sell of entry.quantity
\* exactly on the ticks where (highest - current) / highest * 100 >=
\* stop_loss_percent; on every tick without a position it emits Buy.
C33_TrailingStopSignals ==
    ts_in.called =>
        IF ts_in.position = NoPosition
        THEN IsSignal(ts_out, "buy")
        ELSE /\ stop_highest = ts_peak
             /\ IF (ts_peak - ts_in.price) * 1000 >= stop_loss_tenths * ts_peak
                THEN ts_out = [side |-> "sell",
                               quantity |->
                                   ts_in.position.entry_order.quantity]
                ELSE ts_out = NoSignal


\* C37 (as claimed): when the composer drives its TrailingStopLoss child
\* across several positions, the highest price the child compares against
\* is the maximum buy price observed since the position of the tick was
\* opened; a peak of an earlier position does not reach a later one.
C37_PeakOfThePosition ==
    (composed.called /\ composed.position # NoPosition) =>
        trailing_highest = position_peak


\* C32: the WeightedMovingAverage window never holds more than
\* long_window + shift_past prices, and a price that arrives less than
\* `period` seconds after the last recorded sample overwrites the last slot
\* instead of extending the window.
C32_WindowBoundedAndOverwritten ==
    /\ Len(price_history) <= long_window + shift_past
    /\ (wma_in.called /\ wma_in.at - wma_in.last_price_time < sample_period) =>
           /\ Len(price_history) = Len(wma_in.history)
           /\ price_history =
                  [wma_in.history EXCEPT ![Len(wma_in.history)] = wma_in.price]

C32_Witness ==
    /\ wma_in.called
    /\ wma_in.at - wma_in.last_price_time < sample_period
    /\ Len(wma_in.history) = long_window + shift_past
    /\ wma_in.history[Len(wma_in.history)] # wma_in.price
    /\ price_history[Len(price_history)] = wma_in.price


\* C31 (as claimed): once its window is filled, WeightedMovingAverage emits
\* Buy on a tick without a position if and only if
\* (short_wma < long_wma) XOR (not buy_when_short_below), for all values of
\* the two averages, and it never emits Sell.
C31_BuyIffXor ==
    (wma_in.called /\ Len(price_history) = long_window + shift_past) =>
        LET short_wma == weighted_moving_average(price_history, short_window,
                                                 shift_past)
            long_wma == weighted_moving_average(price_history, long_window,
                                                shift_past)
        IN  /\ ~IsSignal(wma_out, "sell")
            /\ wma_in.position = NoPosition =>
                   (IsSignal(wma_out, "buy")
                        <=> (FractionLess(short_wma, long_wma)
                                 # ~buy_when_short_below))

\* C38 (as claimed): whenever WeightedMovingAverage compares its short and
\* long averages, each is computed over exactly `window` prices taken after
\* dropping the shift_past newest samples, and the strategy emits nothing
\* until long_window + shift_past samples are available.
C38_AveragesOverFullWindows ==
    /\ wma_seen.compared =>
           /\ wma_seen.short_over = short_window
           /\ wma_seen.long_over = long_window
    /\ Len(price_history) < long_window + shift_past =>
           (~IsSignal(wma_out, "buy") /\ ~IsSignal(wma_out, "sell"))


\* Whether what a call returned on a tick with `position` is no signal, or a
\* signal of the side the account accepts there.
SideFits(position, returned) ==
    /\ IsSignal(returned, "buy") => position = NoPosition
    /\ IsSignal(returned, "sell") => position # NoPosition

\* C36: for every strategy variant and for the composer, a signal returned
\* on a tick with an open position has side Sell and a signal returned on a
\* tick without a position has side Buy.
C36_SignalSideFitsPosition ==
    /\ SideFits(rn_in.position, rn_out)
    /\ SideFits(tv_in.position, tv_out.signal)
    /\ SideFits(dt_in.position, dt_out.signal)
    /\ SideFits(composed.position, composed.signal)
    /\ SideFits(wma_in.position, wma_out)
    /\ SideFits(ts_in.position, ts_out)
    /\ SideFits(tp_in.position, tp_out)

C36_Witness ==
    /\ strategy = "composer"
    /\ composed.called
    /\ composed.position # NoPosition
    /\ IsSignal(composed.signal, "sell")

====
